---- MODULE Spec2Model ----
(***************************************************************************)
(* Verification model of the XAI alert-triage pipeline:                    *)
(*   src/src/features.py          canonicalizer and feature mapper         *)
(*   src/src/policy.py            band policy (apply_policy)               *)
(*   src/src/model_api/policy.py  threshold/rule policy (Policy.decide)    *)
(*   src/src/model.py             Explainer (top-K clamp, ranking, chain)  *)
(*                                                                         *)
(* Python values are modelled as tagged records of one shape               *)
(*   [t : type tag, s : string content, n : integer content]               *)
(* so that a missing key, None, a string, an integer and a value of an     *)
(* unexpected type stay distinguishable.  Scores are in hundredths.        *)
(***************************************************************************)
EXTENDS Integers, Sequences, FiniteSets, TLC

VARIABLES
    alert,      \* raw alert handed to the canonicalizer / explainer
    canon,      \* outcome of _canonicalize + _augment_canonical
    fmap,       \* feature-map document
    fnames,     \* outcome of get_feature_names()
    feats,      \* outcome of _apply_feature_map(): the ordered keys of the dict
    polIn,      \* arguments of apply_policy
    polOut,     \* decision returned by apply_policy
    decIn,      \* Policy object and arguments of Policy.decide
    decOut,     \* result of Policy.decide
    expIn,      \* Explainer fields and arguments of Explainer.explain
    expOut,     \* result of Explainer.explain
    sevIn,      \* severities handed to _severity_to_ord
    sevOut,     \* the ordinals it returns
    pc,         \* where each concurrent explain call stands
    local,      \* the arguments and local variables of each concurrent explain call
    explainer,  \* the fields of the Explainer the concurrent calls share
    srcOut      \* what _detect_source and _infer_source return for the alert

vars == <<alert, canon, fmap, fnames, feats, polIn, polOut, decIn, decOut, expIn, expOut, sevIn, sevOut, pc, local, explainer, srcOut>>

\* ------------------------------------------------------------------------
\* Python values
\* ------------------------------------------------------------------------
Absent  == [t |-> "absent", s |-> "", n |-> 0]      \* key not in the dict
None    == [t |-> "none",   s |-> "", n |-> 0]
StrV(x) == [t |-> "str",    s |-> x,  n |-> 0]
\* the decimal string of k ("22", "3389"): content kept as the number it spells
NumStr(k) == [t |-> "str",  s |-> "<digits>", n |-> k]
IntV(k) == [t |-> "int",    s |-> "", n |-> k]
\* a value of an unexpected type (a non-empty list or dict where a scalar is expected)
Obj     == [t |-> "obj",    s |-> "", n |-> 0]

IsStr(v) == v.t = "str"
IsInt(v) == v.t = "int"

\* bool(v)
Truthy(v) ==
    CASE v.t = "absent" -> FALSE
      [] v.t = "none"   -> FALSE
      [] v.t = "str"    -> v.s # ""
      [] v.t = "int"    -> v.n # 0
      [] OTHER          -> TRUE

\* d.get(key, default) for the value v stored under key (Absent: no such key)
Get(v, default) == IF v.t = "absent" THEN default ELSE v
\* d.get(key): default None
Get0(v) == Get(v, None)
\* a or b
Or(a, b) == IF Truthy(a) THEN a ELSE b

\* Containers (alert["decoder"], alert["rule"], ...) are given by their kind;
\* their entries are separate fields of the alert, Absent unless kind = "dict".
ContainerKinds == {"absent", "none", "dict", "scalar"}
\* (alert.get(k, {}) or {}).get(...) raises AttributeError on a truthy non-dict
OrDictRaises(kind) == kind = "scalar"
\* alert.get(k, {}).get(...) raises on None as well
GetDictRaises(kind) == kind \in {"none", "scalar"}

\* ------------------------------------------------------------------------
\* Strings: the vocabulary of names, and the substring test `kw in s`
\* ------------------------------------------------------------------------
Lower(s) ==
    CASE s = "FortiGate" -> "fortigate"
      [] s = "Windows"   -> "windows"
      [] s = "ALLOW"     -> "allow"
      [] s = "High"      -> "high"
      [] s = "TCP"       -> "tcp"
      [] s = "Success"   -> "success"
      [] s = "INFO"      -> "info"
      [] s = "LOW"       -> "low"
      [] s = "MEDIUM"    -> "medium"
      [] s = "HIGH"      -> "high"
      [] s = "CRITICAL"  -> "critical"
      [] OTHER           -> s

\* the keywords of _detect_source / _platform_flags occurring in s as substrings
KeywordsIn(s) ==
    CASE s = "fortigate" -> {"fortigate"}
      [] s = "cisco"     -> {"cisco"}
      [] s = "cisco-asa" -> {"cisco", "asa"}
      [] s = "asa"       -> {"asa"}
      [] s = "unifi"     -> {"unifi"}
      [] s = "firewall"  -> {"firewall"}
      [] s = "router"    -> {"router"}
      [] s = "switch"    -> {"switch"}
      [] s = "windows"   -> {"windows", "win"}
      [] s = "win"       -> {"win"}
      [] s = "darwin"    -> {"win"}
      [] s = "linux"     -> {"linux"}
      [] s = "openstack" -> {"openstack"}
      [] s = "nova"      -> {"nova"}
      [] s = "keystone"  -> {"keystone"}
      [] s = "neutron"   -> {"neutron"}
      [] s = "sshd: accepted password for root" -> {"sshd", "accepted password"}
      [] s = "sshd: failed password for root"   -> {"sshd", "failed password"}
      [] s = "sshd: session opened"             -> {"sshd"}
      [] OTHER           -> {}

Contains(s, kw) == kw \in KeywordsIn(s)

Upper(s) ==
    CASE s = "ssh"   -> "SSH"
      [] s = "rdp"   -> "RDP"
      [] s = "wmi"   -> "WMI"
      [] s = "winrm" -> "WINRM"
      [] s = "snmp"  -> "SNMP"
      [] s = "http"  -> "HTTP"
      [] s = "https" -> "HTTPS"
      [] s = "dns"   -> "DNS"
      [] s = "smtp"  -> "SMTP"
      [] s = "ftp"   -> "FTP"
      [] OTHER       -> s

\* ------------------------------------------------------------------------
\* features.py: low-level helpers
\* ------------------------------------------------------------------------
SENSITIVE_PORTS == {22, 3389, 5985, 5986, 445}
ADMIN_SERVICES  == {"SSH", "RDP", "WINRM", "WMI"}
WEB_PORTS       == {80, 443}

\* int(str(x)) succeeds for an int and for a digit string only
_to_int(x, default) ==
    CASE x.t = "int"                      -> x.n
      [] x.t = "str" /\ x.s = "<digits>"  -> x.n
      [] OTHER                            -> default

\* the bands with the top one starting above 12
LevelOrd_Above12(lvl) ==
    IF lvl > 12 THEN 3 ELSE IF lvl >= 9 THEN 2 ELSE IF lvl >= 6 THEN 1 ELSE 0
LevelOrd(lvl) ==
    IF lvl >= 12 THEN 3 ELSE IF lvl >= 9 THEN 2 ELSE IF lvl >= 6 THEN 1 ELSE 0

_severity_to_ord(sev) ==
    IF sev.t = "int" \/ (sev.t = "str" /\ sev.s = "<digits>")
    THEN LevelOrd(sev.n)
    ELSE LET s == IF sev.t = "str" THEN Lower(sev.s) ELSE ""
         IN  CASE s = "critical" -> 3
               [] s = "high"     -> 2
               [] s = "medium"   -> 1
               [] OTHER          -> 0

\* (service or "").strip() raises on a truthy value that is not a string
NormServiceRaises(service) == Truthy(service) /\ ~IsStr(service)

_norm_service(port, service) ==
    LET svc == IF Truthy(service) THEN Upper(service.s) ELSE ""
    IN  IF port = 22 \/ svc = "SSH" THEN "SSH"
        ELSE IF port = 3389 \/ svc = "RDP" THEN "RDP"
        ELSE IF port \in {5985, 5986} \/ svc \in {"WINRM", "WMI"} THEN "WINRM"
        ELSE IF port = 161 \/ svc = "SNMP" THEN "SNMP"
        ELSE IF port \in WEB_PORTS \/ svc \in {"HTTP", "HTTPS"}
             THEN (IF port = 443 THEN "HTTPS" ELSE "HTTP")
        ELSE IF port = 53 \/ svc = "DNS" THEN "DNS"
        ELSE IF port = 25 \/ svc \in {"SMTP", "SMTPS"} THEN "SMTP"
        ELSE IF svc # "" THEN svc ELSE "NA"

\* the flags taken from the platform kind ("network") instead of the detected source
_platform_flags_ByPlatform(source) ==
    LET src == Lower(source)
    IN  [pf_win  |-> IntV(IF Contains(src, "windows") \/ Contains(src, "win") THEN 1 ELSE 0),
         pf_lin  |-> IntV(IF Contains(src, "linux") THEN 1 ELSE 0),
         pf_nw   |-> IntV(IF Contains(src, "network") THEN 1 ELSE 0),
         pf_osks |-> IntV(IF Contains(src, "openstack") THEN 1 ELSE 0)]
_platform_flags(source) ==
    LET src == Lower(source)
    IN  [pf_win  |-> IntV(IF Contains(src, "windows") \/ Contains(src, "win") THEN 1 ELSE 0),
         pf_lin  |-> IntV(IF Contains(src, "linux") THEN 1 ELSE 0),
         pf_nw   |-> IntV(IF \E k \in {"fortigate", "cisco", "unifi", "firewall", "router", "switch"} :
                               Contains(src, k) THEN 1 ELSE 0),
         pf_osks |-> IntV(IF Contains(src, "openstack") THEN 1 ELSE 0)]

\* ------------------------------------------------------------------------
\* Raw alerts.  A raw alert is a record of
\*   decoder, rule, agent, win, data : the kind of the entry (ContainerKinds)
\*   decoder_name, agent_name, rule_level, data_* : the entry's own entries
\*   rule_groups : [t : "absent" | "none" | "list" | "scalar", items : list]
\*   win_event   : "absent" | "none" | "empty" | "dict" (non-empty) | "scalar"
\*   win_code, win_logon : entries of win.event
\*   full_log
\* Entries of the alert that no modelled input carries (data.src, data.dst,
\* data.srcuser, data.devname, data.proto_name, data.duration, win.event.IpAddress,
\* ...) are absent from every modelled alert.
\* ------------------------------------------------------------------------
NoGroups == [t |-> "absent", items |-> <<>>]

EmptyAlert ==
    [decoder |-> "absent", decoder_name |-> Absent,
     rule |-> "absent", rule_groups |-> NoGroups, rule_level |-> Absent,
     agent |-> "absent", agent_name |-> Absent,
     win |-> "absent", win_event |-> "absent", win_code |-> Absent, win_logon |-> Absent,
     data |-> "absent", data_devid |-> Absent, data_subtype |-> Absent,
     data_srcip |-> Absent, data_dstip |-> Absent,
     data_srcport |-> Absent, data_dstport |-> Absent, data_proto |-> Absent,
     data_sentbyte |-> Absent, data_rcvdbyte |-> Absent,
     data_severity |-> Absent, data_action |-> Absent, data_service |-> Absent,
     data_outcome |-> Absent,
     full_log |-> Absent]

\* the entry of a container: a container that is not a dict has none
Entry(kind, v) == IF kind = "dict" THEN v ELSE Absent

\* ------------------------------------------------------------------------
\* features.py: source detection
\* ------------------------------------------------------------------------
\* (alert.get("decoder", {}) or {}).get("name", "")
RawDecName(a) == Get(Entry(a.decoder, a.decoder_name), StrV(""))
RawAgentName(a) == Get(Entry(a.agent, a.agent_name), StrV(""))
\* (alert.get("rule", {}) or {}).get("groups", []) or []
RawGroups(a) ==
    LET g == IF a.rule = "dict" THEN a.rule_groups ELSE NoGroups
    IN  IF g.t \in {"absent", "none"} THEN [t |-> "list", items |-> <<>>] ELSE g

\* lines 230-232 raise: .get on a non-dict, .lower() on a non-string, iteration
\* over a non-iterable
NamesRaise(a) ==
    \/ OrDictRaises(a.decoder)
    \/ ~IsStr(RawDecName(a))
    \/ OrDictRaises(a.rule)
    \/ RawGroups(a).t = "scalar"
    \/ \E i \in 1..Len(RawGroups(a).items) : ~IsStr(RawGroups(a).items[i])
    \/ OrDictRaises(a.agent)
    \/ ~IsStr(RawAgentName(a))

DecName(a) == Lower(RawDecName(a).s)
AgentName(a) == Lower(RawAgentName(a).s)
GroupNames(a) == {Lower(RawGroups(a).items[i].s) : i \in 1..Len(RawGroups(a).items)}
\* full = " ".join([dec, " ".join(groups), agent]): a keyword (no blank in it)
\* occurs in full iff it occurs in one of the joined parts
InFull(a, kw) ==
    \/ Contains(DecName(a), kw)
    \/ \E g \in GroupNames(a) : Contains(g, kw)
    \/ Contains(AgentName(a), kw)

NetworkKeywords == {"fortigate", "cisco", "unifi", "asa", "firewall", "router", "switch"}
CloudKeywords == {"openstack", "nova", "keystone", "neutron"}

IsNetworkNamed(a) == \E k \in NetworkKeywords : InFull(a, k)
IsWindowsNamed(a) == InFull(a, "windows") \/ Contains(DecName(a), "win") \/ Contains(AgentName(a), "win")
\* alert.get("win", {}).get("event") is truthy
WinEventTruthy(a) == a.win = "dict" /\ a.win_event \in {"dict", "scalar"}
IsLinuxNamed(a) == InFull(a, "linux")
IsCloudNamed(a) == \E k \in CloudKeywords : InFull(a, k)
\* (alert.get("data", {}) or {}).get("devid") or ....get("subtype") == "ips"
HasStructuralHint(a) ==
    \/ Truthy(Get0(Entry(a.data, a.data_devid)))
    \/ Get0(Entry(a.data, a.data_subtype)) = StrV("ips")

\* _detect_source raises
DetectRaises(a) ==
    \/ NamesRaise(a)
    \/ /\ ~IsNetworkNamed(a)
       /\ ~IsWindowsNamed(a)
       /\ \/ GetDictRaises(a.win)
          \/ /\ ~WinEventTruthy(a) /\ ~IsLinuxNamed(a) /\ ~IsCloudNamed(a)
             /\ OrDictRaises(a.data)

\* the value _detect_source returns when it does not raise
_detect_source(a) ==
    IF IsNetworkNamed(a)
    THEN (IF InFull(a, "fortigate") THEN "fortigate"
          ELSE IF InFull(a, "cisco") \/ InFull(a, "asa") THEN "cisco" ELSE "unifi")
    ELSE IF IsWindowsNamed(a) \/ WinEventTruthy(a) THEN "windows"
    ELSE IF IsLinuxNamed(a) THEN "linux"
    ELSE IF IsCloudNamed(a) THEN "openstack"
    ELSE IF HasStructuralHint(a) THEN "fortigate"
    ELSE "generic"

\* ------------------------------------------------------------------------
\* features.py: canonical mappers.  A canonical record is a function from
\* key to Python value; its DOMAIN is the key set of the dict.
\* ------------------------------------------------------------------------
\* d.get(key) for d = alert.get("data", {}) or {}
DGet(a, v) == Get0(Entry(a.data, v))
\* r.get("level") for r = alert.get("rule", {}) or {}
RLevel(a) == Get0(Entry(a.rule, a.rule_level))
\* (x or dflt).lower() raises on a truthy non-string
LowerRaises(x) == Truthy(x) /\ ~IsStr(x)
LowerOr(x, dflt) == IF Truthy(x) THEN Lower(x.s) ELSE dflt
\* str(x or "")
StrOf(x) ==
    IF ~Truthy(x) THEN StrV("")
    ELSE IF x.t = "int" THEN NumStr(x.n)
    ELSE IF x.t = "str" THEN x
    ELSE StrV("<repr>")

SeverityInput(a) == IF DGet(a, a.data_severity) # None THEN DGet(a, a.data_severity) ELSE RLevel(a)

MapNetworkRaises(a) ==
    \/ OrDictRaises(a.data)
    \/ NormServiceRaises(Get(Entry(a.data, a.data_service), StrV("")))
    \/ LowerRaises(DGet(a, a.data_action))
    \/ LowerRaises(DGet(a, a.data_subtype))

_map_network_like(a) ==
    LET dst_port == _to_int(DGet(a, a.data_dstport), 0)
    IN  [src_ip        |-> Or(DGet(a, a.data_srcip), None),
         dst_ip        |-> Or(DGet(a, a.data_dstip), None),
         src_port      |-> IntV(_to_int(DGet(a, a.data_srcport), 0)),
         dst_port      |-> IntV(dst_port),
         proto         |-> Or(DGet(a, a.data_proto), StrV("na")),
         bytes_sent    |-> IntV(_to_int(DGet(a, a.data_sentbyte), 0)),
         bytes_recv    |-> IntV(_to_int(DGet(a, a.data_rcvdbyte), 0)),
         duration_sec  |-> IntV(0),
         rule_level    |-> IntV(_to_int(RLevel(a), 0)),
         severity_ord  |-> IntV(_severity_to_ord(SeverityInput(a))),
         action        |-> StrV(LowerOr(DGet(a, a.data_action), "")),
         threat_family |-> StrV(LowerOr(DGet(a, a.data_subtype), "na")),
         service_label |-> StrV(_norm_service(dst_port, Get(Entry(a.data, a.data_service), StrV("")))),
         user          |-> StrV(""),
         host          |-> RawAgentName(a),
         platform_source |-> StrV("network")]

\* win = (alert.get("win", {}) or {}).get("event", {}) or {}; win.get(...)
MapWindowsRaises(a) ==
    \/ OrDictRaises(a.win)
    \/ (a.win = "dict" /\ a.win_event = "scalar")

WinGet(a, v) == IF a.win = "dict" /\ a.win_event = "dict" THEN Get0(v) ELSE None

_map_windows(a) ==
    LET code == StrOf(WinGet(a, a.win_code))
        auth_result == IF code = NumStr(4624) THEN 1 ELSE IF code = NumStr(4625) THEN 0 ELSE -1
        logon_type == StrOf(WinGet(a, a.win_logon))
        service_label == IF logon_type \in {NumStr(10), NumStr(7)} THEN "RDP" ELSE "NA"
    IN  [src_ip        |-> StrV(""),
         dst_ip        |-> StrV(""),
         src_port      |-> IntV(0),
         dst_port      |-> IntV(IF service_label = "RDP" THEN 3389 ELSE 0),
         proto         |-> StrV("tcp"),
         bytes_sent    |-> IntV(0),
         bytes_recv    |-> IntV(0),
         duration_sec  |-> IntV(0),
         rule_level    |-> IntV(_to_int(RLevel(a), 0)),
         severity_ord  |-> IntV(0),
         action        |-> StrV("na"),
         threat_family |-> StrV("auth"),
         service_label |-> StrV(service_label),
         user          |-> StrV(""),
         host          |-> RawAgentName(a),
         platform_source |-> StrV("windows"),
         auth_result   |-> IntV(auth_result),
         logon_type    |-> Or(logon_type, StrV("na"))]

\* msg = (alert.get("full_log") or "").lower()
MapLinuxRaises(a) == LowerRaises(Get0(a.full_log))

_map_linux(a) ==
    LET msg == LowerOr(Get0(a.full_log), "")
        auth_result == IF Contains(msg, "accepted password") THEN 1
                       ELSE IF Contains(msg, "failed password") THEN 0 ELSE -1
        sshd == Contains(msg, "sshd")
    IN  [src_ip        |-> StrV(""),
         dst_ip        |-> StrV(""),
         src_port      |-> IntV(0),
         dst_port      |-> IntV(IF sshd THEN 22 ELSE 0),
         proto         |-> StrV("tcp"),
         bytes_sent    |-> IntV(0),
         bytes_recv    |-> IntV(0),
         duration_sec  |-> IntV(0),
         rule_level    |-> IntV(_to_int(RLevel(a), 0)),
         severity_ord  |-> IntV(0),
         action        |-> StrV("na"),
         threat_family |-> StrV(IF sshd THEN "auth" ELSE "na"),
         service_label |-> StrV(IF sshd THEN "SSH" ELSE "NA"),
         user          |-> StrV(""),
         host          |-> RawAgentName(a),
         platform_source |-> StrV("linux"),
         auth_result   |-> IntV(auth_result),
         logon_type    |-> StrV("na")]

MapOpenstackRaises(a) == OrDictRaises(a.data)

_map_openstack(a) ==
    LET o == StrOf(DGet(a, a.data_outcome))
        outcome == IF o.s = "<digits>" THEN o.s ELSE Lower(o.s)
        auth_result == IF outcome = "success" THEN 1 ELSE IF outcome = "failure" THEN 0 ELSE -1
    IN  [src_ip        |-> StrV(""),
         dst_ip        |-> StrV(""),
         src_port      |-> IntV(0),
         dst_port      |-> IntV(0),
         proto         |-> StrV("tcp"),
         bytes_sent    |-> IntV(0),
         bytes_recv    |-> IntV(0),
         duration_sec  |-> IntV(0),
         rule_level    |-> IntV(_to_int(RLevel(a), 0)),
         severity_ord  |-> IntV(0),
         action        |-> StrV("na"),
         threat_family |-> StrV(IF auth_result # -1 THEN "auth" ELSE "na"),
         service_label |-> StrV("API"),
         user          |-> StrV(""),
         host          |-> Or(DGet(a, a.data_service), StrV("openstack")),
         platform_source |-> StrV("openstack"),
         auth_result   |-> IntV(auth_result),
         logon_type    |-> StrV("api")]

MapGenericRaises(a) ==
    \/ OrDictRaises(a.data)
    \/ NormServiceRaises(Get(Entry(a.data, a.data_service), StrV("")))
    \/ LowerRaises(DGet(a, a.data_action))
    \/ LowerRaises(DGet(a, a.data_subtype))

_map_generic(a) ==
    LET dst_port == _to_int(DGet(a, a.data_dstport), 0)
    IN  [src_ip        |-> Or(DGet(a, a.data_srcip), StrV("")),
         dst_ip        |-> Or(DGet(a, a.data_dstip), StrV("")),
         src_port      |-> IntV(_to_int(DGet(a, a.data_srcport), 0)),
         dst_port      |-> IntV(dst_port),
         proto         |-> Or(DGet(a, a.data_proto), StrV("na")),
         bytes_sent    |-> IntV(_to_int(DGet(a, a.data_sentbyte), 0)),
         bytes_recv    |-> IntV(_to_int(DGet(a, a.data_rcvdbyte), 0)),
         duration_sec  |-> IntV(0),
         rule_level    |-> IntV(_to_int(RLevel(a), 0)),
         severity_ord  |-> IntV(_severity_to_ord(SeverityInput(a))),
         action        |-> StrV(LowerOr(DGet(a, a.data_action), "na")),
         threat_family |-> StrV(LowerOr(DGet(a, a.data_subtype), "na")),
         service_label |-> StrV(_norm_service(dst_port, Get(Entry(a.data, a.data_service), StrV("")))),
         user          |-> StrV(""),
         host          |-> RawAgentName(a),
         platform_source |-> StrV("generic")]

CanonRaises(a) ==
    \/ DetectRaises(a)
    \/ LET src == _detect_source(a)
       IN  IF src \in {"fortigate", "cisco", "unifi"} THEN MapNetworkRaises(a)
           ELSE IF src = "windows" THEN MapWindowsRaises(a)
           ELSE IF src = "linux" THEN MapLinuxRaises(a)
           ELSE IF src = "openstack" THEN MapOpenstackRaises(a)
           ELSE MapGenericRaises(a)

\* the dict _canonicalize returns when it does not raise
_canonicalize(a) ==
    LET src  == _detect_source(a)
        base == IF src \in {"fortigate", "cisco", "unifi"} THEN _map_network_like(a)
                ELSE IF src = "windows" THEN _map_windows(a)
                ELSE IF src = "linux" THEN _map_linux(a)
                ELSE IF src = "openstack" THEN _map_openstack(a)
                ELSE _map_generic(a)
        port == _to_int(base.dst_port, 0)
    IN  [bytes_total       |-> IntV(_to_int(base.bytes_sent, 0) + _to_int(base.bytes_recv, 0)),
         dst_svc_sensitive |-> IntV(IF port \in SENSITIVE_PORTS THEN 1 ELSE 0),
         dst_svc_admin     |-> IntV(IF base.service_label.s \in ADMIN_SERVICES THEN 1 ELSE 0),
         hour              |-> IntV(0)]
        @@ _platform_flags(src) @@ base

\* ipaddress.ip_address(ip).is_private, 0 when ip is no address
IsPrivateIp(ip) == ip \in {"10.0.0.5", "10.0.0.9", "192.168.1.7", "127.0.0.1"}
\* ip.split(".") has four parts: its first three
Prefix24(ip) ==
    CASE ip = "10.0.0.5"    -> "10.0.0"
      [] ip = "10.0.0.9"    -> "10.0.0"
      [] ip = "192.168.1.7" -> "192.168.1"
      [] ip = "127.0.0.1"   -> "127.0.0"
      [] ip = "8.8.8.8"     -> "8.8.8"
      [] ip = "8.8.8.4"     -> "8.8.8"
      [] ip = "999.1.1.1"   -> "999.1.1"
      [] OTHER              -> "<not four parts>"
Same24(x, y) ==
    /\ Prefix24(x) # "<not four parts>"
    /\ Prefix24(y) # "<not four parts>"
    /\ Prefix24(x) = Prefix24(y)

B(cond) == IntV(IF cond THEN 1 ELSE 0)

\* c.get(key, dflt) on a canonical record
CGet(c, key, dflt) == IF key \in DOMAIN c THEN c[key] ELSE dflt

_augment_canonical(c) ==
    LET bs == CGet(c, "bytes_sent", IntV(0)).n
        br == CGet(c, "bytes_recv", IntV(0)).n
        dst_port == CGet(c, "dst_port", IntV(0)).n
        raw_proto == StrOf(CGet(c, "proto", StrV("")))
        token == IF raw_proto.s = "<digits>"
                 THEN (IF raw_proto.n = 6 THEN "tcp" ELSE IF raw_proto.n = 17 THEN "udp"
                       ELSE IF raw_proto.n = 1 THEN "icmp" ELSE "other")
                 ELSE Lower(raw_proto.s)
        svc == Upper(CGet(c, "service_label", StrV("")).s)
        arv == CGet(c, "auth_result", IntV(-1))
        ar  == IF arv = None THEN -1 ELSE arv.n
        act == Lower(StrOf(CGet(c, "action", StrV(""))).s)
        src_ip == StrOf(CGet(c, "src_ip", None)).s
        dst_ip == StrOf(CGet(c, "dst_ip", None)).s
        src_priv == IsPrivateIp(src_ip)
        dst_priv == IsPrivateIp(dst_ip)
        pf_nw == CGet(c, "pf_nw", None) = IntV(1)
        allowed3 == act \in {"allow", "allowed", "accept"}
    IN  [bytes_total       |-> IntV(bs + br),
         port_bucket_low   |-> B(0 < dst_port /\ dst_port <= 1024),
         port_bucket_mid   |-> B(1025 <= dst_port /\ dst_port <= 49151),
         port_bucket_high  |-> B(dst_port >= 49152),
         proto_tcp         |-> B(token = "tcp"),
         proto_udp         |-> B(token = "udp"),
         proto_icmp        |-> B(token = "icmp"),
         service_snmp      |-> B(svc = "SNMP"),
         service_ssh       |-> B(svc = "SSH"),
         service_rdp       |-> B(svc = "RDP"),
         service_winrm     |-> B(svc = "WINRM"),
         service_smtp      |-> B(svc = "SMTP"),
         service_http      |-> B(svc = "HTTP"),
         service_https     |-> B(svc = "HTTPS"),
         severity_ord      |-> IntV(CGet(c, "severity_ord", IntV(0)).n),
         dst_svc_sensitive |-> B(Truthy(CGet(c, "dst_svc_sensitive", None))),
         dst_svc_admin     |-> B(Truthy(CGet(c, "dst_svc_admin", None))),
         auth_result_pos   |-> B(ar = 1),
         auth_result_neg   |-> B(ar = 0),
         action_allowed    |-> B(act \in {"allow", "allowed", "accept", "permitted"}),
         action_blocked    |-> B(act \in {"block", "blocked", "deny", "denied"}),
         action_dropped    |-> B(act \in {"drop", "dropped"}),
         src_is_private    |-> B(src_priv),
         dst_is_private    |-> B(dst_priv),
         same_subnet_24    |-> B(Same24(src_ip, dst_ip)),
         dir_ingress       |-> B(allowed3 /\ pf_nw /\ dst_priv),
         dir_egress        |-> B(allowed3 /\ pf_nw /\ src_priv /\ ~dst_priv),
         dir_internal      |-> B(src_priv /\ dst_priv)]
        @@ c

\* the first two statements of extract_features: the result, or that it raised
Pending == [done |-> FALSE, raised |-> FALSE, rec |-> <<>>]
Raised  == [done |-> TRUE, raised |-> TRUE, rec |-> <<>>]
Canonical(a) ==
    IF CanonRaises(a) THEN Raised
    ELSE [done |-> TRUE, raised |-> FALSE, rec |-> _augment_canonical(_canonicalize(a))]

\* ------------------------------------------------------------------------
\* Raw alerts the canonicalizer is run on
\* ------------------------------------------------------------------------
\* decoder / agent entries: <<kind, name>>
DecoderShapes ==
    {<<"absent", Absent>>, <<"none", Absent>>, <<"scalar", Absent>>}
    \cup {<<"dict", n>> : n \in {Absent, None, StrV("FortiGate"),
                                 StrV("darwin"), StrV("linux"), StrV("nova"), StrV("syslog")}}
AgentShapes ==
    {<<"absent", Absent>>}
    \cup {<<"dict", n>> : n \in {None, StrV("web01")}}
\* rule entries: <<kind, groups>>
GroupShapes ==
    {<<"absent", NoGroups>>, <<"none", NoGroups>>, <<"scalar", NoGroups>>}
    \cup {<<"dict", g>> : g \in {NoGroups,
                                 [t |-> "none", items |-> <<>>],
                                 [t |-> "scalar", items |-> <<>>],
                                 [t |-> "list", items |-> <<StrV("firewall")>>],
                                 [t |-> "list", items |-> <<StrV("syslog"), StrV("windows")>>],
                                 [t |-> "list", items |-> <<StrV("syslog"), IntV(3)>>]}}
\* win entries: <<kind, event kind>>
WinShapes ==
    {<<"absent", "absent">>, <<"none", "absent">>, <<"scalar", "absent">>}
    \cup {<<"dict", e>> : e \in {"absent", "none", "empty", "dict", "scalar"}}
\* data entries: <<kind, devid, subtype>>
DataShapes ==
    {<<"absent", Absent, Absent>>, <<"none", Absent, Absent>>, <<"scalar", Absent, Absent>>}
    \cup {<<"dict", d, st>> : d \in {Absent, StrV("FG100")}, st \in {Absent, StrV("ips"), Obj}}

\* an alert that differs from {} in the shape of its decoder, rule, agent, win
\* and data entries
IsShapeAlert(a) ==
    \E d \in DecoderShapes, ag \in AgentShapes, g \in GroupShapes,
       w \in WinShapes, dt \in DataShapes :
        a = [EmptyAlert EXCEPT !.decoder = d[1], !.decoder_name = d[2],
                               !.agent = ag[1], !.agent_name = ag[2],
                               !.rule = g[1], !.rule_groups = g[2],
                               !.win = w[1], !.win_event = w[2],
                               !.data = dt[1], !.data_devid = dt[2], !.data_subtype = dt[3]]

SourceMarkers ==
    {Absent, StrV("fortigate"), StrV("cisco-asa"), StrV("unifi"),
     StrV("windows"), StrV("linux"), StrV("openstack")}
PortValues == {Absent, IntV(22), NumStr(443), IntV(1025), IntV(49152), StrV("http-alt")}
ActionValues == {Absent, StrV("ALLOW"), StrV("permitted"), StrV("deny"), StrV("drop")}
SrcIpValues == {Absent, StrV("10.0.0.5"), StrV("8.8.8.8")}
DstIpValues == {Absent, StrV("10.0.0.9"), StrV("8.8.8.4")}
SeverityValues == {Absent, StrV("High"), IntV(7)}
LevelValues == {Absent, IntV(5), IntV(9), NumStr(12)}

\* an alert of some source kind with values in its data and rule entries
IsValueAlert(a) ==
    \E m \in SourceMarkers, pt \in PortValues, ac \in ActionValues,
       si \in SrcIpValues, di \in DstIpValues, sv \in SeverityValues, lv \in LevelValues :
        a = [EmptyAlert EXCEPT !.decoder = "dict", !.decoder_name = m,
                               !.rule = "dict", !.rule_level = lv,
                               !.data = "dict", !.data_dstport = pt, !.data_action = ac,
                               !.data_srcip = si, !.data_dstip = di, !.data_severity = sv]

\* an alert of some source kind with values in the entries only one mapper reads
IsDetailAlert(a) ==
    \E m \in SourceMarkers,
       cd \in {Absent, IntV(4624), NumStr(4625)},
       lg \in {Absent, IntV(10)},
       fl \in {Absent, StrV("sshd: failed password for root"), Obj},
       oc \in {Absent, StrV("Success"), StrV("failure")},
       pr \in {Absent, StrV("TCP"), IntV(17)},
       sv \in {Absent, StrV("ssh"), IntV(7)},
       ac \in {Absent, Obj},
       by \in {<<Absent, Absent>>, <<IntV(900), NumStr(100)>>} :
        a = [EmptyAlert EXCEPT !.decoder = "dict", !.decoder_name = m,
                               !.win = "dict", !.win_event = "dict", !.win_code = cd, !.win_logon = lg,
                               !.full_log = fl,
                               !.data = "dict", !.data_outcome = oc, !.data_proto = pr,
                               !.data_service = sv, !.data_action = ac,
                               !.data_sentbyte = by[1], !.data_rcvdbyte = by[2]]

IsRawAlert(a) == a = EmptyAlert \/ IsShapeAlert(a) \/ IsValueAlert(a) \/ IsDetailAlert(a)

\* ------------------------------------------------------------------------
\* State of the components that take no part in a specification
\* ------------------------------------------------------------------------
Idle == [done |-> FALSE]
IdleCanon   == alert = EmptyAlert /\ canon = Pending
IdleFmap    == fmap = Idle /\ fnames = Idle /\ feats = Idle
IdlePolicy  == polIn = Idle /\ polOut = Idle
IdleDecide  == decIn = Idle /\ decOut = Idle
IdleExplain == expIn = Idle /\ expOut = Idle
IdleSeverity == sevIn = Idle /\ sevOut = Idle
IdleConcurrent == pc = <<>> /\ local = <<>> /\ explainer = Idle
IdleSource == srcOut = Idle

\* ------------------------------------------------------------------------
\* Canonicalizer: extract_features' canon = _augment_canonical(_canonicalize(alert))
\* ------------------------------------------------------------------------
InitCanon ==
    /\ IsRawAlert(alert)
    /\ canon = Pending
    /\ IdleFmap /\ IdlePolicy /\ IdleDecide /\ IdleExplain /\ IdleSeverity /\ IdleConcurrent /\ IdleSource

Canonicalize ==
    /\ ~canon.done
    /\ canon' = Canonical(alert)
    /\ UNCHANGED <<alert, fmap, fnames, feats, polIn, polOut, decIn, decOut, expIn, expOut, sevIn, sevOut, pc, local, explainer, srcOut>>

NextCanon == Canonicalize
SpecCanon == InitCanon /\ [][NextCanon]_vars

\* the keys of the canonical record's documented schema (spec section 3)
SchemaKeys ==
    {"src_ip", "dst_ip", "src_port", "dst_port", "proto", "bytes_sent", "bytes_recv",
     "duration_sec", "rule_level", "severity_ord", "action", "service_label",
     "platform_source", "pf_win", "pf_lin", "pf_nw", "pf_osks", "auth_result",
     "bytes_total", "port_bucket_low", "port_bucket_mid", "port_bucket_high",
     "proto_tcp", "proto_udp", "proto_icmp",
     "service_snmp", "service_ssh", "service_rdp", "service_winrm", "service_smtp",
     "service_http", "service_https", "dst_svc_sensitive", "dst_svc_admin",
     "auth_result_pos", "auth_result_neg",
     "action_allowed", "action_blocked", "action_dropped",
     "src_is_private", "dst_is_private", "same_subnet_24",
     "dir_ingress", "dir_egress", "dir_internal"}

\* C1: canonicalization returns a canonical record and never raises, for every
\* raw alert, including alerts whose decoder, rule, agent, win or data entries
\* are missing, null or of an unexpected type.
C1_CanonicalizeNeverRaises == canon.done => ~canon.raised

\* C2: for every raw alert (including {}) and every detected source kind the
\* canonical record produced by canonicalization plus augmentation contains
\* every key of the schema, auth_result among them: no schema key is present
\* for one source kind and absent for another.
C2_SchemaKeysPresent == (canon.done /\ ~canon.raised) => SchemaKeys \subseteq DOMAIN canon.rec

\* ------------------------------------------------------------------------
\* features.py: feature map.  The document is
\*   [features : "absent" | "list" | "dict" | "other", items : entries]
\* A list's entries are FVals; a dict's entries are [key, val] pairs in the
\* document's order (keys distinct), val an FVal.  An FVal is
\*   "str"     a string s
\*   "other"   a value that is neither a string nor a dict (a number, a list)
\*   "dict"    a dict with the optional entries name, path, default
\*   "section" a dict of named specs: entries, [key, val] pairs (keys distinct)
\* ------------------------------------------------------------------------
FStr(x) == [k |-> "str", s |-> x, name |-> Absent, path |-> Absent, default |-> Absent, entries |-> <<>>]
FOther == [k |-> "other", s |-> "", name |-> Absent, path |-> Absent, default |-> Absent, entries |-> <<>>]
FDict(nm, p, d) == [k |-> "dict", s |-> "", name |-> nm, path |-> p, default |-> d, entries |-> <<>>]
FSection(es) == [k |-> "section", s |-> "", name |-> Absent, path |-> Absent, default |-> Absent, entries |-> es]

IsDictVal(v) == v.k \in {"dict", "section"}
\* a leaf PyVal seen as an FVal (the values of a spec dict's own entries)
FOfPy(v) == IF v.t = "str" THEN FStr(v.s) ELSE FOther
\* the (key, value) pairs of a dict value, in order
PairsOf(v) ==
    IF v.k = "section" THEN v.entries
    ELSE (IF v.name # Absent THEN <<[key |-> "name", val |-> FOfPy(v.name)]>> ELSE <<>>)
         \o (IF v.path # Absent THEN <<[key |-> "path", val |-> FOfPy(v.path)]>> ELSE <<>>)
         \o (IF v.default # Absent THEN <<[key |-> "default", val |-> FOfPy(v.default)]>> ELSE <<>>)
\* "path" in v
HasPathKey(v) == \E i \in 1..Len(PairsOf(v)) : PairsOf(v)[i].key = "path"
\* v.get(key) for a dict value
SpecGet(v, key) ==
    IF v.k = "dict"
    THEN (IF key = "name" THEN v.name ELSE IF key = "path" THEN v.path
          ELSE IF key = "default" THEN v.default ELSE Absent)
    ELSE IF \E i \in 1..Len(v.entries) : v.entries[i].key = key
         THEN LET i == CHOOSE j \in 1..Len(v.entries) : v.entries[j].key = key
                  e == v.entries[i].val
              IN  IF e.k = "str" THEN StrV(e.s) ELSE Obj
         ELSE Absent

\* str(x) of a name or path
NameStr(x) == StrOf(x).s

Triple(nm, p, d) == [name |-> nm, path |-> p, default |-> d]
NormRaised == [raised |-> TRUE, list |-> <<>>]
NormOk(l) == [raised |-> FALSE, list |-> l]

\* lines 80-93: a list of dicts and strings
ListItemInvalid(item) ==
    \/ item.k \notin {"dict", "section", "str"}
    \/ /\ IsDictVal(item)
       /\ \/ ~Truthy(Or(Get0(SpecGet(item, "name")), Get0(SpecGet(item, "path"))))
          \/ ~Truthy(Or(Get0(SpecGet(item, "path")), Get0(SpecGet(item, "name"))))
ListItemTriple(item) ==
    IF IsDictVal(item)
    THEN Triple(NameStr(Or(Get0(SpecGet(item, "name")), Get0(SpecGet(item, "path")))),
                NameStr(Or(Get0(SpecGet(item, "path")), Get0(SpecGet(item, "name")))),
                Get(SpecGet(item, "default"), IntV(0)))
    ELSE Triple(item.s, item.s, IntV(0))
NormList(items) ==
    IF \E i \in 1..Len(items) : ListItemInvalid(items[i]) THEN NormRaised
    ELSE NormOk([i \in 1..Len(items) |-> ListItemTriple(items[i])])

\* lines 98-108: a flat dict
IsFlat(pairs) == \A i \in 1..Len(pairs) : ~IsDictVal(pairs[i].val) \/ HasPathKey(pairs[i].val)
FlatTriple(pr) ==
    IF pr.val.k = "str" THEN Triple(pr.key, pr.val.s, IntV(0))
    ELSE Triple(pr.key, NameStr(Or(Get0(SpecGet(pr.val, "path")), StrV(pr.key))),
                Get(SpecGet(pr.val, "default"), IntV(0)))
NormFlat(pairs) ==
    IF \E i \in 1..Len(pairs) : pairs[i].val.k = "other" THEN NormRaised
    ELSE NormOk([i \in 1..Len(pairs) |-> FlatTriple(pairs[i])])

\* lines 111-122: nested sections
SectionTriple(pr) ==
    IF IsDictVal(pr.val)
    THEN Triple(pr.key, NameStr(Or(Get0(SpecGet(pr.val, "path")), StrV(pr.key))),
                Get(SpecGet(pr.val, "default"), IntV(0)))
    ELSE Triple(pr.key, pr.key, IntV(0))
SectionTriples(v) ==
    IF ~IsDictVal(v) THEN <<>>
    ELSE [i \in 1..Len(PairsOf(v)) |-> SectionTriple(PairsOf(v)[i])]
RECURSIVE NormNested(_)
NormNested(pairs) ==
    IF pairs = <<>> THEN <<>>
    ELSE SectionTriples(Head(pairs).val) \o NormNested(Tail(pairs))

_norm_features_spec(fm) ==
    CASE fm.features = "absent" -> NormRaised
      [] fm.features = "list"   -> NormList(fm.items)
      [] fm.features = "dict"   -> IF IsFlat(fm.items) THEN NormFlat(fm.items)
                                   ELSE NormOk(NormNested(fm.items))
      [] OTHER                  -> NormRaised

\* float(v) succeeds
FloatOk(v) == v.t = "int" \/ (v.t = "str" /\ v.s = "<digits>")

\* the keys of a dict filled by out[name] = ... for each triple in turn: a
\* repeated name keeps its first position
RECURSIVE DictKeys(_, _)
DictKeys(list, seen) ==
    IF list = <<>> THEN <<>>
    ELSE IF Head(list).name \in seen THEN DictKeys(Tail(list), seen)
    ELSE <<Head(list).name>> \o DictKeys(Tail(list), seen \cup {Head(list).name})

\* val = canon.get(path, default); float(val), else float(default)
TripleVal(c, item) == CGet(c, item.path, item.default)
TripleRaises(c, item) == ~FloatOk(TripleVal(c, item)) /\ ~FloatOk(item.default)
TripleFloat(c, item) == IF FloatOk(TripleVal(c, item)) THEN TripleVal(c, item).n ELSE item.default.n

FeatsRaised == [done |-> TRUE, raised |-> TRUE, keys |-> <<>>, vals |-> <<>>]
FeatsOk(ks, vs) == [done |-> TRUE, raised |-> FALSE, keys |-> ks, vals |-> vs]

_apply_feature_map(c, fm) ==
    LET flist == _norm_features_spec(fm)
    IN  IF flist.raised \/ \E i \in 1..Len(flist.list) : TripleRaises(c, flist.list[i])
        THEN FeatsRaised
        ELSE LET ks == DictKeys(flist.list, {})
                 last(nm) == CHOOSE i \in 1..Len(flist.list) :
                                /\ flist.list[i].name = nm
                                /\ \A j \in (i+1)..Len(flist.list) : flist.list[j].name # nm
             IN  FeatsOk(ks, [i \in 1..Len(ks) |-> TripleFloat(c, flist.list[last(ks[i])])])

\* lines 455-482: the default compact vector
DefaultVector(c) ==
    LET I(key) == _to_int(CGet(c, key, None), 0)
        T(key) == IF Truthy(CGet(c, key, None)) THEN 1 ELSE 0
        Svc(x) == IF CGet(c, "service_label", None) = StrV(x) THEN 1 ELSE 0
    IN  << <<"rule_level", I("rule_level")>>,
           <<"severity_ord", I("severity_ord")>>,
           <<"bytes_sent", I("bytes_sent")>>,
           <<"bytes_recv", I("bytes_recv")>>,
           <<"bytes_total", I("bytes_total")>>,
           <<"duration_sec", I("duration_sec")>>,
           <<"dst_port", I("dst_port")>>,
           <<"dst_svc_sensitive", T("dst_svc_sensitive")>>,
           <<"dst_svc_admin", T("dst_svc_admin")>>,
           <<"pf_win", I("pf_win")>>,
           <<"pf_lin", I("pf_lin")>>,
           <<"pf_nw", I("pf_nw")>>,
           <<"pf_osks", I("pf_osks")>>,
           <<"auth_result_pos", IF CGet(c, "auth_result", IntV(-1)) = IntV(1) THEN 1 ELSE 0>>,
           <<"auth_result_neg", IF CGet(c, "auth_result", IntV(-1)) = IntV(0) THEN 1 ELSE 0>>,
           <<"service_snmp", Svc("SNMP")>>,
           <<"service_ssh", Svc("SSH")>>,
           <<"service_rdp", Svc("RDP")>>,
           <<"service_winrm", Svc("WINRM")>>,
           <<"hour", I("hour")>> >>

\* if fmap: (a missing file, an empty document)
FmapLoaded(fm) == fm.features # "nofile"

extract_features(a, fm) ==
    IF CanonRaises(a) THEN FeatsRaised
    ELSE LET c == _augment_canonical(_canonicalize(a))
         IN  IF FmapLoaded(fm) THEN _apply_feature_map(c, fm)
             ELSE FeatsOk([i \in 1..Len(DefaultVector(c)) |-> DefaultVector(c)[i][1]],
                          [i \in 1..Len(DefaultVector(c)) |-> DefaultVector(c)[i][2]])

NamesRaised == [done |-> TRUE, raised |-> TRUE, names |-> <<>>]
NamesOk(ns) == [done |-> TRUE, raised |-> FALSE, names |-> ns]

get_feature_names(fm) ==
    IF FmapLoaded(fm)
    THEN (IF _norm_features_spec(fm).raised THEN NamesRaised
          ELSE NamesOk([i \in 1..Len(_norm_features_spec(fm).list) |-> _norm_features_spec(fm).list[i].name]))
    ELSE NamesOk(<<"rule_level", "severity_ord",
                   "bytes_sent", "bytes_recv", "bytes_total", "duration_sec",
                   "dst_port", "dst_svc_sensitive", "dst_svc_admin",
                   "pf_win", "pf_lin", "pf_nw", "pf_osks",
                   "auth_result_pos", "auth_result_neg",
                   "service_snmp", "service_ssh", "service_rdp", "service_winrm",
                   "hour">>)

\* ------------------------------------------------------------------------
\* Feature mapper: extract_features(alert) and get_feature_names() under one
\* loaded feature map
\* ------------------------------------------------------------------------
MaxListLen == 2     \* entries of a list feature map
MaxEntries == 2     \* entries of a section

NoFmap == [features |-> "nofile", items |-> <<>>]

ListItems ==
    {FStr("rule_level"), FStr("action"), FOther}
    \cup {FDict(nm, p, d) : nm \in {Absent, StrV("lvl")},
                            p \in {Absent, StrV("rule_level"), StrV("src_ip")},
                            d \in {Absent, IntV(1), None, StrV("n/a")}}
TopKeys == {"net", "auth"}
SectionKeys == {"rule_level", "action", "src_ip"}
SectionLeaves == {FStr("documented elsewhere"), FDict(Absent, StrV("src_ip"), None)}
TopLeaves ==
    {FStr("rule_level"), FOther}
    \cup {FDict(Absent, p, d) : p \in {Absent, StrV("src_ip")}, d \in {Absent, None}}

Injective(f) == \A i, j \in DOMAIN f : f[i] = f[j] => i = j
Pairs(ks, vs) == [i \in DOMAIN ks |-> [key |-> ks[i], val |-> vs[i]]]

IsListFmap(fm) ==
    \E k \in 0..MaxListLen : \E items \in [1..k -> ListItems] :
        fm = [features |-> "list", items |-> items]

Sections ==
    UNION {{FSection(Pairs(ks, vs)) : ks \in {f \in [1..k -> SectionKeys] : Injective(f)},
                                      vs \in [1..k -> SectionLeaves]} : k \in 0..MaxEntries}
TopVals == TopLeaves \cup Sections

IsDictFmap(fm) ==
    \E k \in 0..Cardinality(TopKeys) : \E ks \in [1..k -> TopKeys] : \E vs \in [1..k -> TopVals] :
        /\ Injective(ks)
        /\ fm = [features |-> "dict", items |-> Pairs(ks, vs)]

IsFmap(fm) ==
    \/ fm = NoFmap
    \/ fm = [features |-> "absent", items |-> <<>>]
    \/ fm = [features |-> "other", items |-> <<>>]
    \/ IsListFmap(fm)
    \/ IsDictFmap(fm)

\* the alerts features are extracted from: {} and a firewall alert
FirewallAlert ==
    [EmptyAlert EXCEPT !.decoder = "dict", !.decoder_name = StrV("fortigate"),
                       !.rule = "dict", !.rule_level = IntV(9),
                       !.data = "dict", !.data_action = StrV("ALLOW"),
                       !.data_dstport = NumStr(443), !.data_dstip = StrV("10.0.0.9")]
FmapAlerts == {EmptyAlert, FirewallAlert}

InitFmap ==
    /\ alert \in FmapAlerts
    /\ canon = Pending
    /\ IsFmap(fmap)
    /\ fnames = Idle
    /\ feats = Idle
    /\ IdlePolicy /\ IdleDecide /\ IdleExplain /\ IdleSeverity /\ IdleConcurrent /\ IdleSource

ExtractFeatures ==
    /\ ~feats.done
    /\ canon' = Canonical(alert)
    /\ feats' = extract_features(alert, fmap)
    /\ UNCHANGED <<alert, fmap, fnames, polIn, polOut, decIn, decOut, expIn, expOut, sevIn, sevOut, pc, local, explainer, srcOut>>

GetFeatureNames ==
    /\ ~fnames.done
    /\ fnames' = get_feature_names(fmap)
    /\ UNCHANGED <<alert, canon, fmap, feats, polIn, polOut, decIn, decOut, expIn, expOut, sevIn, sevOut, pc, local, explainer, srcOut>>

NextFmap == ExtractFeatures \/ GetFeatureNames
SpecFmap == InitFmap /\ [][NextFmap]_vars

\* C3: for every accepted feature-map shape, get_feature_names() and the keys
\* of extract_features() are the same sequence: equal length and the same
\* name at every index, in feature-map declaration order.
C3_NamesEqualFeatureKeys ==
    (feats.done /\ fnames.done /\ ~feats.raised /\ ~fnames.raised) => fnames.names = feats.keys

\* ------------------------------------------------------------------------
\* src/policy.py.  Scores, minima and thresholds are in hundredths.
\* A policy document is
\*   [defaults  : record of Python values (Absent: key missing),
\*    sources   : function from the configured source names to
\*                [bands, decision_threshold, default_tag],
\*    overrides : list of [when, elevate_to, downgrade_to]]
\* A band is [min, tag, action, recommend], Python values.  A `when` is a list
\* of [key, v] conditions; a comparison string ">=N" is the string value
\* [t |-> "str", s |-> ">=", n |-> N].
\* ------------------------------------------------------------------------
CmpStr(op, k) == [t |-> "str", s |-> op, n |-> k]
IsCmp(v) == v.t = "str" /\ v.s \in {">=", "<=", ">", "<"}
\* v.startswith(prefix) for a comparison string
StartsWith(v, prefix) ==
    CASE prefix = ">=" -> v.s = ">="
      [] prefix = "<=" -> v.s = "<="
      [] prefix = ">"  -> v.s \in {">", ">="}
      [] prefix = "<"  -> v.s \in {"<", "<="}

\* one condition of match_overrides holds for the record value cv
CondHolds(v, cv) ==
    IF IsCmp(v)
    THEN /\ FloatOk(Or(cv, IntV(0)))
         /\ LET tgt == v.n
                cur == Or(cv, IntV(0)).n
            IN  /\ ~(StartsWith(v, ">=") /\ ~(cur >= tgt))
                /\ ~(StartsWith(v, "<=") /\ ~(cur <= tgt))
                /\ ~(StartsWith(v, ">")  /\ ~(cur > tgt))
                /\ ~(StartsWith(v, "<")  /\ ~(cur < tgt))
    ELSE cv = v

match_overrides(when, c) ==
    \A i \in 1..Len(when) : CondHolds(when[i].v, CGet(c, when[i].key, None))

\* sorted(bands, key=lambda b: float(b.get("min", 0)), reverse=True): stable
BandMin(b) == Get(b.min, IntV(0)).n
RECURSIVE InsertBand(_, _)
InsertBand(b, sorted) ==
    IF sorted = <<>> THEN <<b>>
    ELSE IF BandMin(Head(sorted)) >= BandMin(b) THEN <<Head(sorted)>> \o InsertBand(b, Tail(sorted))
    ELSE <<b>> \o sorted
RECURSIVE SortBandsFrom(_, _)
SortBandsFrom(bands, sorted) ==
    IF bands = <<>> THEN sorted
    ELSE SortBandsFrom(Tail(bands), InsertBand(Head(bands), sorted))
\* the bands scanned in configuration order, unsorted
SortedBands_Unsorted(bands) == bands
SortedBands(bands) == SortBandsFrom(bands, <<>>)

\* the band the loop of lines 59-64 breaks on: 0 when it breaks on none
FirstBand(sorted, score) ==
    IF \E i \in 1..Len(sorted) : score >= BandMin(sorted[i])
    THEN CHOOSE i \in 1..Len(sorted) :
            /\ score >= BandMin(sorted[i])
            /\ \A j \in 1..(i-1) : ~(score >= BandMin(sorted[j]))
    ELSE 0

NoSrcPol == [bands |-> <<>>, decision_threshold |-> Absent, default_tag |-> Absent]
SrcPol(policy, source) == IF source \in DOMAIN policy.sources THEN policy.sources[source] ELSE NoSrcPol

\* lines 66-73: the overrides, applied to the tag in configuration order
RECURSIVE ApplyOverrides(_, _, _)
ApplyOverrides(ovs, c, tag) ==
    IF ovs = <<>> THEN tag
    ELSE LET ov == Head(ovs)
             t1 == IF match_overrides(ov.when, c) /\ ov.elevate_to # Absent THEN ov.elevate_to ELSE tag
             t2 == IF match_overrides(ov.when, c) /\ ov.downgrade_to # Absent THEN ov.downgrade_to ELSE t1
         IN  ApplyOverrides(Tail(ovs), c, t2)

Max(x, y) == IF x >= y THEN x ELSE y
Min(x, y) == IF x <= y THEN x ELSE y

DefaultTag(policy, source) ==
    Get(SrcPol(policy, source).default_tag, Get(policy.defaults.default_tag, StrV("LOW")))
BandTag(policy, score, source) ==
    LET sorted == SortedBands(SrcPol(policy, source).bands)
        i == FirstBand(sorted, score)
    IN  IF i = 0 THEN DefaultTag(policy, source) ELSE Get(sorted[i].tag, DefaultTag(policy, source))

apply_policy(policy, score, source, c) ==
    LET pdefs  == policy.defaults
        srcpol == SrcPol(policy, source)
        sorted == SortedBands(srcpol.bands)
        i      == FirstBand(sorted, score)
        action0 == Get(pdefs.min_action, StrV("Queue"))
        recommend0 == Get(pdefs.min_recommendation, StrV("Monitor traffic"))
        shap_enabled == Truthy(Get(pdefs.shap_enabled, IntV(1)))
        shap_min_score == Get(pdefs.shap_min_score, IntV(20)).n
        top_k_min == Get(pdefs.top_k_min, IntV(10)).n
        top_k == Get(pdefs.top_k, IntV(12)).n
    IN  [done |-> TRUE,
         threshold |-> Get(srcpol.decision_threshold, Get(pdefs.decision_threshold, IntV(50))).n,
         tag |-> ApplyOverrides(policy.overrides, c, BandTag(policy, score, source)),
         action |-> IF i = 0 THEN action0 ELSE Get(sorted[i].action, action0),
         recommendation |-> IF i = 0 THEN recommend0 ELSE Get(sorted[i].recommend, recommend0),
         do_shap |-> shap_enabled /\ score >= shap_min_score,
         top_k |-> Max(top_k_min, top_k)]

\* ------------------------------------------------------------------------
\* apply_policy under bounded policy documents
\* ------------------------------------------------------------------------
MaxBands == 3       \* bands of a source
MaxOverrides == 2   \* override rules of a policy

Band(m, t, a, r) == [min |-> m, tag |-> t, action |-> a, recommend |-> r]
BandPool ==
    {Band(Absent,   StrV("INFO"),     StrV("Log"),      StrV("No action")),
     Band(IntV(30), StrV("LOW"),      StrV("Queue"),    StrV("Monitor traffic")),
     Band(IntV(50), StrV("MEDIUM"),   Absent,           Absent),
     Band(IntV(70), StrV("HIGH"),     StrV("Escalate"), StrV("Investigate")),
     Band(IntV(70), Absent,           StrV("Page"),     StrV("Call on-call")),
     Band(IntV(85), StrV("CRITICAL"), StrV("Block"),    StrV("Isolate host"))}
Scores == {0, 29, 30, 69, 70, 85, 100}

NoDefaults ==
    [decision_threshold |-> Absent, default_tag |-> Absent, min_action |-> Absent,
     min_recommendation |-> Absent, shap_enabled |-> Absent, shap_min_score |-> Absent,
     top_k_min |-> Absent, top_k |-> Absent]
\* the policy document {} (also what load_policy returns for a missing file)
EmptyPolicy == [defaults |-> NoDefaults, sources |-> <<>>, overrides |-> <<>>]

SourceNames == {"network", "endpoint", "server"}
WithSource(pol, source, srcpol) ==
    [pol EXCEPT !.sources = [x \in {source} |-> srcpol]]

Cond(k, v) == [key |-> k, v |-> v]
Override(w, e, d) == [when |-> w, elevate_to |-> e, downgrade_to |-> d]
Whens ==
    {<<>>,
     <<Cond("severity_ord", CmpStr(">=", 2))>>,
     <<Cond("action", StrV("allow"))>>,
     <<Cond("severity_ord", CmpStr("<", 3)), Cond("pf_nw", IntV(1))>>}
OverridePool ==
    {Override(w, e, d) : w \in Whens, e \in {Absent, StrV("LOW"), StrV("CRITICAL")},
                         d \in {Absent, StrV("INFO")}}
PolCanons ==
    {[severity_ord |-> IntV(2), action |-> StrV("allow"), pf_nw |-> IntV(1)],
     [severity_ord |-> IntV(3), action |-> StrV("deny"), pf_nw |-> IntV(0)]}

\* policies that differ in the bands of the requested source
IsBandCall(pin) ==
    \E k \in 0..MaxBands : \E bands \in [1..k -> BandPool] : \E sc \in Scores :
        /\ Injective(bands)
        /\ pin = [done |-> TRUE, score |-> sc, source |-> "network", c |-> <<>>,
                  policy |-> WithSource(EmptyPolicy, "network",
                                        [NoSrcPol EXCEPT !.bands = bands])]

\* policies that differ in their override rules
IsOverrideCall(pin) ==
    \E k \in 0..MaxOverrides : \E ovs \in [1..k -> OverridePool] :
    \E sc \in {29, 85} : \E c \in PolCanons :
    \E bands \in {<<>>, <<Band(IntV(50), StrV("HIGH"), Absent, Absent)>>} :
        pin = [done |-> TRUE, score |-> sc, source |-> "network", c |-> c,
               policy |-> [WithSource(EmptyPolicy, "network", [NoSrcPol EXCEPT !.bands = bands])
                           EXCEPT !.overrides = ovs]]

\* policies that differ in their defaults, for a configured and an unconfigured source
IsDefaultsCall(pin) ==
    \E dt \in {Absent, IntV(30)}, tg \in {Absent, StrV("INFO")}, ma \in {Absent, StrV("Log")},
       se \in {Absent, IntV(0)}, sm \in {Absent, IntV(50)},
       km \in {Absent, IntV(5), IntV(15)}, tk \in {Absent, IntV(3)},
       sdt \in {Absent, IntV(70)}, stg \in {Absent, StrV("MEDIUM")},
       src \in {"network", "server"}, sc \in {29, 50, 85} :
        pin = [done |-> TRUE, score |-> sc, source |-> src, c |-> <<>>,
               policy |-> WithSource(
                   [EmptyPolicy EXCEPT !.defaults =
                        [decision_threshold |-> dt, default_tag |-> tg, min_action |-> ma,
                         min_recommendation |-> Absent, shap_enabled |-> se,
                         shap_min_score |-> sm, top_k_min |-> km, top_k |-> tk]],
                   "network",
                   [bands |-> <<Band(IntV(85), StrV("CRITICAL"), Absent, Absent)>>,
                    decision_threshold |-> sdt, default_tag |-> stg])]

InitPolicy ==
    /\ IsBandCall(polIn) \/ IsOverrideCall(polIn) \/ IsDefaultsCall(polIn)
    /\ polOut = Idle
    /\ IdleCanon /\ IdleFmap /\ IdleDecide /\ IdleExplain /\ IdleSeverity /\ IdleConcurrent /\ IdleSource

ApplyPolicy ==
    /\ ~polOut.done
    /\ polOut' = apply_policy(polIn.policy, polIn.score, polIn.source, polIn.c)
    /\ UNCHANGED <<alert, canon, fmap, fnames, feats, polIn, decIn, decOut, expIn, expOut, sevIn, sevOut, pc, local, explainer, srcOut>>

NextPolicy == ApplyPolicy
SpecPolicy == InitPolicy /\ [][NextPolicy]_vars

\* C4: apply_policy adopts the tag/action/recommendation of the band with the
\* greatest minimum that is <= score, whatever order the bands are listed in;
\* a score equal to a band's minimum selects that band; when no band's
\* minimum is <= score the default tag/action/recommendation are returned.
\* (An entry a band does not carry keeps its default; the tag is compared
\* when no override rule is configured.)
C4_BandSelection ==
    polOut.done =>
        LET bands == SrcPol(polIn.policy, polIn.source).bands
            Q     == {i \in 1..Len(bands) : BandMin(bands[i]) <= polIn.score}
            dtag  == DefaultTag(polIn.policy, polIn.source)
            dact  == Get(polIn.policy.defaults.min_action, StrV("Queue"))
            drec  == Get(polIn.policy.defaults.min_recommendation, StrV("Monitor traffic"))
            Adopted(t, a, r) ==
                /\ polIn.policy.overrides = <<>> => polOut.tag = t
                /\ polOut.action = a
                /\ polOut.recommendation = r
        IN  IF Q = {} THEN Adopted(dtag, dact, drec)
            ELSE \E i \in Q :
                    /\ \A j \in Q : BandMin(bands[j]) <= BandMin(bands[i])
                    /\ Adopted(Get(bands[i].tag, dtag), Get(bands[i].action, dact),
                               Get(bands[i].recommend, drec))

\* a lower band listed before a higher one whose minimum the score equals
C4_Witness ==
    /\ polOut.done
    /\ LET bands == SrcPol(polIn.policy, polIn.source).bands
       IN  /\ Len(bands) >= 2
           /\ BandMin(bands[1]) < BandMin(bands[2])
           /\ polIn.score = BandMin(bands[2])
           /\ bands[2].tag = StrV("HIGH")
           /\ polOut.tag = StrV("HIGH")
           /\ polOut.action = StrV("Escalate")

\* ------------------------------------------------------------------------
\* src/model_api/policy.py.  Scores, bumps and thresholds are in hundredths.
\* The alert handed to Policy.decide is a function from dotted paths
\* ("rule.level") to the Python values found there; a path outside its
\* domain does not resolve.
\* ------------------------------------------------------------------------
_get(d, path, default) == IF path \in DOMAIN d THEN d[path] ELSE default

\* the parse of a `when` expression: the operator, the left operand and the
\* right operands (one for a comparison, the list for "in"); NoSpec is None
NoSpec == [op |-> "none", left |-> "", right |-> <<>>]
WhenSpec(op, left, right) == [op |-> op, left |-> left, right |-> right]
_parse_when(expr) ==
    CASE expr = "rule.level >= 10"       -> WhenSpec(">=", "rule.level", <<IntV(10)>>)
      [] expr = "rule.level <= 12"       -> WhenSpec("<=", "rule.level", <<IntV(12)>>)
      [] expr = "rule.level == 12"       -> WhenSpec("==", "rule.level", <<IntV(12)>>)
      [] expr = "rule.level > 5"         -> WhenSpec(">", "rule.level", <<IntV(5)>>)
      [] expr = "rule.level < high"      -> WhenSpec("<", "rule.level", <<StrV("high")>>)
      [] expr = "rule.level in [5, 12]"  -> WhenSpec("in", "rule.level", <<IntV(5), IntV(12)>>)
      [] expr = "data.action == 'deny'"  -> WhenSpec("==", "data.action", <<StrV("deny")>>)
      [] expr = "data.action in blocked" -> NoSpec
      [] expr = "always"                 -> NoSpec
      [] expr = ""                       -> NoSpec

\* lines 74-85: the rule's predicate evaluated on the alert; an exception
\* inside the comparison leaves hit False
Hit(spec, a) ==
    IF spec = NoSpec THEN FALSE
    ELSE LET lv == _get(a, spec.left, None)
             rv == spec.right[1]
             Cmp(x, y) ==
                CASE spec.op = ">=" -> x >= y
                  [] spec.op = "<=" -> x <= y
                  [] spec.op = ">"  -> x > y
                  [] spec.op = "<"  -> x < y
         IN  CASE spec.op = "in" -> \E i \in 1..Len(spec.right) : lv = spec.right[i]
               [] spec.op = "==" -> lv = rv
               [] OTHER -> FloatOk(lv) /\ FloatOk(rv) /\ Cmp(lv.n, rv.n)

\* r.get("when", "").strip() raises on a value that is not a string
WhenRaises(r) == r.when.t \notin {"absent", "str"}
RuleHit(r, a) == Hit(_parse_when(Get(r.when, StrV("")).s), a)

\* str(val) of an interpolated value
PyStr(v) ==
    CASE v.t = "int"  -> NumStr(v.n)
      [] v.t = "none" -> StrV("None")
      [] v.t = "obj"  -> StrV("[...]")
      [] OTHER        -> v
\* a reason template is a list of parts: a literal text or a #{path} token
Lit(s) == [tok |-> FALSE, text |-> s]
Tok(path) == [tok |-> TRUE, text |-> path]
_fmt_reason(tpl, a) ==
    [i \in DOMAIN tpl |-> IF tpl[i].tok THEN PyStr(_get(a, tpl[i].text, StrV("")))
                          ELSE StrV(tpl[i].text)]

\* entries of the reason list
RuleReason(parts) == [kind |-> "rule", parts |-> parts, score |-> 0, tag |-> "", threshold |-> 0]
\* "Score {boosted:.2f} >= {tag} threshold {th.get(tag, 0.0)}"
ScoreReason(boosted, tag, thr) ==
    [kind |-> "score", parts |-> <<>>, score |-> boosted, tag |-> tag, threshold |-> thr]
\* "Score {boosted:.2f}"
ScoreOnlyReason(boosted) ==
    [kind |-> "score_only", parts |-> <<>>, score |-> boosted, tag |-> "", threshold |-> 0]

Tags == <<"info", "low", "medium", "high", "critical">>
Rank(tag) == CHOOSE i \in 1..Len(Tags) : Tags[i] = tag

NoThresholds == [info |-> Absent, low |-> Absent, medium |-> Absent, high |-> Absent, critical |-> Absent]
\* self.th.get(tag, default)
ThGet(th, tag, default) == IF tag \in DOMAIN th THEN Get(th[tag], IntV(default)).n ELSE default
\* tag in self.th
ThHas(th, tag) == tag \in DOMAIN th /\ th[tag] # Absent

\* lines 62-66
ScoreTag(th, score) ==
    IF score >= ThGet(th, "critical", 85) THEN "critical"
    ELSE IF score >= ThGet(th, "high", 70) THEN "high"
    ELSE IF score >= ThGet(th, "medium", 50) THEN "medium"
    ELSE IF score >= ThGet(th, "low", 30) THEN "low"
    ELSE "info"

\* lines 72-92: the state the loop over the rules carries
LoopState(tag, bump, reasons, recs) == [tag |-> tag, bump |-> bump, reasons |-> reasons, recs |-> recs]
ApplyRule(r, a, st) ==
    IF ~RuleHit(r, a) THEN st
    ELSE LoopState(
            IF Truthy(r.escalate_to) THEN r.escalate_to.s ELSE st.tag,
            IF Truthy(r.bump) THEN st.bump + r.bump.n ELSE st.bump,
            st.reasons
                \o (IF r.reason # <<>> THEN <<RuleReason(_fmt_reason(r.reason, a))>> ELSE <<>>)
                \o (IF r.add_reason # <<>> THEN <<RuleReason(_fmt_reason(r.add_reason, a))>> ELSE <<>>),
            st.recs \o r.recommendations)
RECURSIVE RuleLoop(_, _, _)
RuleLoop(rules, a, st) ==
    IF rules = <<>> THEN st ELSE RuleLoop(Tail(rules), a, ApplyRule(Head(rules), a, st))

\* score + bump, without the clamp of line 95
Boosted_Unclamped(score, bump) == score + bump
\* line 95
Boosted(score, bump) == Max(0, Min(100, score + bump))

\* lines 96-97, with the guard of line 97 dropped
Recheck_NoGuard(th, boosted, tag) ==
    IF boosted >= ThGet(th, "critical", 85) THEN "critical"
    ELSE IF boosted >= ThGet(th, "high", 70) THEN "high"
    ELSE tag
\* lines 96-97: the tag re-evaluated on the boosted score
Recheck(th, boosted, tag) ==
    IF boosted >= ThGet(th, "critical", 85) THEN "critical"
    ELSE IF boosted >= ThGet(th, "high", 70) /\ tag # "critical" THEN "high"
    ELSE tag

\* the tag held when the loop over the rules ends (line 92)
RuleSetTag(cfg, score, a) == RuleLoop(cfg.rules, a, LoopState(ScoreTag(cfg.th, score), 0, <<>>, <<>>)).tag

\* list(dict.fromkeys(xs)): first occurrences, in order
RECURSIVE Dedupe(_, _)
Dedupe(xs, seen) ==
    IF xs = <<>> THEN seen
    ELSE Dedupe(Tail(xs), IF \E i \in DOMAIN seen : seen[i] = Head(xs) THEN seen ELSE Append(seen, Head(xs)))
\* xs[:k]
Take(xs, k) == SubSeq(xs, 1, Min(k, Len(xs)))
\* d.get(tag, default) for the per-tag texts of the configuration
TagGet(d, tag, default) == IF tag \in DOMAIN d THEN d[tag] ELSE default

\* lines 103-118: coverage in tenths of a percent (round(cov, 1))
Used(mask) == Cardinality({i \in DOMAIN mask : mask[i]})
Coverage(mask) == IF Len(mask) > 0 THEN (2000 * Used(mask) + Len(mask)) \div (2 * Len(mask)) ELSE 0
Missing(names, mask) ==
    LET n == Min(Len(names), Len(mask))
        F[i \in 0..n] == IF i = 0 THEN <<>>
                         ELSE IF mask[i] THEN F[i-1] ELSE Append(F[i-1], names[i])
    IN  F[n]
Health(mask, names, staleness) ==
    [feature_coverage_pct |-> Coverage(mask),
     missing_features |-> Take(Missing(names, mask), 10),
     model_staleness_days |-> staleness,
     pipeline_ok |-> 100 * Used(mask) >= 60 * Len(mask) /\ Len(mask) > 0]

DecideRaised == [done |-> TRUE, raised |-> TRUE]
\* Policy.decide
decide(cfg, score, a, mask, names, staleness) ==
    IF \E i \in DOMAIN cfg.rules : WhenRaises(cfg.rules[i]) THEN DecideRaised
    ELSE LET st == RuleLoop(cfg.rules, a, LoopState(ScoreTag(cfg.th, score), 0, <<>>, <<>>))
             boosted == Boosted(score, st.bump)
             tag == Recheck(cfg.th, boosted, st.tag)
             first == IF ThHas(cfg.th, tag) THEN ScoreReason(boosted, tag, ThGet(cfg.th, tag, 0))
                      ELSE ScoreOnlyReason(boosted)
         IN  [done |-> TRUE, raised |-> FALSE,
              tag |-> tag,
              score |-> boosted,
              reasons |-> Take(<<first>> \o st.reasons, 6),
              triage_text |-> TagGet(cfg.triage_text, tag, ""),
              recommendations |-> Take(Dedupe(st.recs \o TagGet(cfg.recs_by_tag, tag, <<>>), <<>>), 6),
              health |-> Health(mask, names, staleness)]

\* ------------------------------------------------------------------------
\* Policy.decide under bounded configurations
\* ------------------------------------------------------------------------
MaxRules == 2       \* rules of a configuration

Rule(w, reason, bump, recs, esc) ==
    [when |-> w, reason |-> reason, add_reason |-> <<>>, bump |-> bump,
     recommendations |-> recs, escalate_to |-> esc]
Config(th, rules) ==
    [th |-> th, rules |-> rules,
     triage_text |-> [critical |-> "Immediate action", high |-> "Review today"],
     recs_by_tag |-> [critical |-> <<"Isolate host", "Open incident">>, high |-> <<"Open incident">>]]

ThresholdSets ==
    {NoThresholds,
     [NoThresholds EXCEPT !.critical = IntV(90), !.high = IntV(60), !.medium = IntV(40), !.low = IntV(20)],
     [NoThresholds EXCEPT !.critical = IntV(60), !.high = IntV(80)]}
DecideScores == {10, 30, 55, 70, 80, 85, 95}
DenyAlert == ("rule.level" :> IntV(12)) @@ ("data.action" :> StrV("deny"))
DecideAlerts ==
    {DenyAlert,
     ("rule.level" :> NumStr(5)) @@ ("data.action" :> StrV("allow")),
     ("rule.level" :> StrV("high")),
     ("data.action" :> None)}
WhenValues ==
    {Absent, None, Obj}
    \cup {StrV(e) : e \in {"rule.level >= 10", "rule.level <= 12", "rule.level == 12", "rule.level > 5",
                           "rule.level < high", "rule.level in [5, 12]", "data.action == 'deny'",
                           "data.action in blocked", "always"}}
LevelReason == <<Lit("Rule level "), Tok("rule.level"), Lit(" from "), Tok("agent.name")>>

\* matching rules that differ in their bump and escalate_to
EscalationRules ==
    {Rule(StrV("data.action == 'deny'"), <<>>, b, <<>>, e) :
        b \in {Absent, IntV(20), IntV(-30)},
        e \in {Absent, StrV("low"), StrV("high"), StrV("critical")}}
IsEscalationCall(din) ==
    \E k \in 0..MaxRules : \E rules \in [1..k -> EscalationRules] :
    \E th \in ThresholdSets : \E sc \in DecideScores :
        din = [done |-> TRUE, cfg |-> Config(th, rules), score |-> sc, alert |-> DenyAlert,
               mask |-> <<>>, names |-> <<>>, staleness |-> None]

\* rules that differ in their predicate, on alerts that differ in the fields it reads
PredicateRules ==
    {Rule(w, rr[1], IntV(20), rr[2], Absent) :
        w \in WhenValues, rr \in {<<<<>>, <<>>>>, <<LevelReason, <<"Open incident", "Block source">>>>}}
IsPredicateCall(din) ==
    \E k \in 0..MaxRules : \E rules \in [1..k -> PredicateRules] :
    \E a \in DecideAlerts : \E sc \in {55, 80} :
        din = [done |-> TRUE, cfg |-> Config(NoThresholds, rules), score |-> sc, alert |-> a,
               mask |-> <<>>, names |-> <<>>, staleness |-> None]

\* calls that differ in the feature mask and the age of the model file
IsHealthCall(din) ==
    \E mask \in {<<>>, <<TRUE>>, <<TRUE, FALSE>>, <<TRUE, FALSE, TRUE>>, <<FALSE, FALSE, TRUE>>} :
    \E names \in {<<>>, <<"rule_level", "dst_port">>, <<"rule_level", "dst_port", "action">>} :
    \E st \in {None, IntV(0), IntV(3)} :
        din = [done |-> TRUE, cfg |-> Config(NoThresholds, <<>>), score |-> 55, alert |-> DenyAlert,
               mask |-> mask, names |-> names, staleness |-> st]

InitDecide ==
    /\ IsEscalationCall(decIn) \/ IsPredicateCall(decIn) \/ IsHealthCall(decIn)
    /\ decOut = Idle
    /\ IdleCanon /\ IdleFmap /\ IdlePolicy /\ IdleExplain /\ IdleSeverity /\ IdleConcurrent /\ IdleSource

Decide ==
    /\ ~decOut.done
    /\ decOut' = decide(decIn.cfg, decIn.score, decIn.alert, decIn.mask, decIn.names, decIn.staleness)
    /\ UNCHANGED <<alert, canon, fmap, fnames, feats, polIn, polOut, decIn, expIn, expOut, sevIn, sevOut, pc, local, explainer, srcOut>>

NextDecide == Decide
SpecDecide == InitDecide /\ [][NextDecide]_vars

\* C5: across override processing and the threshold re-check, the final tag is
\* of lower severity than the tag derived from the score only when a matching
\* rule carries an explicit downgrade_to; a matching rule's escalate_to never
\* results in a lower-severity tag.  (Policy.decide reads no downgrade_to.)
C5_EscalateNeverLowers ==
    (decOut.done /\ ~decOut.raised) =>
        Rank(decOut.tag) >= Rank(ScoreTag(decIn.cfg.th, decIn.score))

\* C6: the re-check after the bumps only moves the tag upward: the returned
\* tag is never of lower severity than the tag held when the loop over the
\* rules ended, for any score, bump sum and rule-set tag.
C6_RecheckOnlyUpward ==
    (decOut.done /\ ~decOut.raised) =>
        Rank(decOut.tag) >= Rank(RuleSetTag(decIn.cfg, decIn.score, decIn.alert))

\* a rule escalated to critical, a negative bump sum, and a boosted score
\* between the high and the critical threshold: the tag stays critical
C6_Witness ==
    /\ decOut.done /\ ~decOut.raised
    /\ ScoreTag(decIn.cfg.th, decIn.score) # "critical"
    /\ RuleSetTag(decIn.cfg, decIn.score, decIn.alert) = "critical"
    /\ decOut.score < decIn.score
    /\ decOut.score >= ThGet(decIn.cfg.th, "high", 70)
    /\ decOut.score < ThGet(decIn.cfg.th, "critical", 85)
    /\ decOut.tag = "critical"

\* ------------------------------------------------------------------------
\* src/model.py.  An Explainer is
\*   [model         : a scoring model was loaded,
\*    proba         : the probability the model returns (hundredths),
\*    feature_names : [saved, names], the persisted feature order if any,
\*    tree          : [kind, phi], kind "none" (no tree explainer was built),
\*                    "fail" (shap_values raises) or "ok" (it returns phi),
\*    kernel        : [kind, phi], kind "nobg" (no background sample),
\*                    "ctor_fail" (KernelExplainer raises), "fail"
\*                    (shap_values raises) or "ok",
\*    fi            : [present, values], the model's feature_importances_,
\*    policy        : the loaded policy document]
\* feats is [keys, vals], the feature dict in insertion order.  Indices into
\* the feature vector are 0-based as in the source; sequences are 1-based.
\* ------------------------------------------------------------------------
TOP_K_DEFAULT == 10
TOP_K_MIN_FLOOR == 10

\* _infer_source raises: the same unguarded reads as lines 230-243 of features.py
InferRaises(a) ==
    \/ NamesRaise(a)
    \/ /\ ~IsNetworkNamed(a)
       /\ ~IsWindowsNamed(a)
       /\ \/ GetDictRaises(a.win)
          \/ /\ ~WinEventTruthy(a) /\ ~IsLinuxNamed(a) /\ ~IsCloudNamed(a)
             /\ OrDictRaises(a.data)
\* _infer_source without the fallback on data.devid / data.subtype
_infer_source_NoHint(a) ==
    IF IsNetworkNamed(a) THEN "network"
    ELSE IF IsWindowsNamed(a) \/ WinEventTruthy(a) THEN "endpoint"
    ELSE IF IsLinuxNamed(a) THEN "endpoint"
    ELSE "server"
_infer_source(a) ==
    IF IsNetworkNamed(a) THEN "network"
    ELSE IF IsWindowsNamed(a) \/ WinEventTruthy(a) THEN "endpoint"
    ELSE IF IsLinuxNamed(a) THEN "endpoint"
    ELSE IF IsCloudNamed(a) THEN "server"
    ELSE IF HasStructuralHint(a) THEN "network"
    ELSE "server"

\* feats.get(k, 0.0)
FeatGet(fts, k) ==
    IF \E i \in DOMAIN fts.keys : fts.keys[i] = k
    THEN fts.vals[CHOOSE i \in DOMAIN fts.keys : fts.keys[i] = k]
    ELSE 0
\* the feature dict as apply_policy reads it
FeatsDict(fts) == [k \in {fts.keys[i] : i \in DOMAIN fts.keys} |-> IntV(FeatGet(fts, k))]

\* _feature_array: the names and the vector x
FeatureNames(ex, fts) == IF ex.feature_names.saved THEN ex.feature_names.names ELSE fts.keys
FeatureVector(ex, fts) ==
    [i \in DOMAIN FeatureNames(ex, fts) |-> FeatGet(fts, FeatureNames(ex, fts)[i])]

predict_proba(ex) == IF ~ex.model THEN 50 ELSE ex.proba

Abs(v) == IF v < 0 THEN -v ELSE v
\* np.argsort(-key): the 0-based indices by decreasing key
RECURSIVE ArgSortFrom(_, _)
ArgSortFrom(key, left) ==
    IF left = {} THEN <<>>
    ELSE LET i == CHOOSE j \in left : \A m \in left : key[j] > key[m] \/ (key[j] = key[m] /\ j <= m)
         IN  <<i - 1>> \o ArgSortFrom(key, left \ {i})
ArgSortDesc(key) == ArgSortFrom(key, DOMAIN key)

\* order with the index filter dropped
ValidOrder_Unfiltered(order, n_feats) == order
\* order[order < n_feats]
ValidOrder(order, n_feats) == SelectSeq(order, LAMBDA idx : idx < n_feats)

\* _append_nonzero_features: [raised, out]; reading x[idx] or impacts[idx]
\* past the end raises IndexError
\* the loop without the test of line 143: zero-valued features are kept
RECURSIVE AppendFrom_KeepZeros(_, _, _, _, _, _)
AppendFrom_KeepZeros(order, names, x, impacts, k_limit, out) ==
    IF order = <<>> THEN [raised |-> FALSE, out |-> out]
    ELSE LET idx == Head(order)
         IN  IF idx >= Len(x) \/ idx >= Len(impacts) \/ idx >= Len(names)
             THEN [raised |-> TRUE, out |-> out]
             ELSE LET out2 == Append(out, [feature |-> names[idx + 1], value |-> x[idx + 1],
                                           impact |-> impacts[idx + 1]])
                  IN  IF Len(out2) >= k_limit THEN [raised |-> FALSE, out |-> out2]
                      ELSE AppendFrom_KeepZeros(Tail(order), names, x, impacts, k_limit, out2)
RECURSIVE AppendFrom(_, _, _, _, _, _)
AppendFrom(order, names, x, impacts, k_limit, out) ==
    IF order = <<>> THEN [raised |-> FALSE, out |-> out]
    ELSE LET idx == Head(order)
         IN  IF idx >= Len(x) \/ idx >= Len(impacts) THEN [raised |-> TRUE, out |-> out]
             ELSE IF x[idx + 1] = 0 THEN AppendFrom(Tail(order), names, x, impacts, k_limit, out)
             ELSE IF idx >= Len(names) THEN [raised |-> TRUE, out |-> out]
             ELSE LET out2 == Append(out, [feature |-> names[idx + 1], value |-> x[idx + 1],
                                           impact |-> impacts[idx + 1]])
                  IN  IF Len(out2) >= k_limit THEN [raised |-> FALSE, out |-> out2]
                      ELSE AppendFrom(Tail(order), names, x, impacts, k_limit, out2)
_append_nonzero_features(order, names, x, impacts, k_limit) ==
    AppendFrom(order, names, x, impacts, k_limit, <<>>)

\* _clamp_top_k; k_req is a Python value
_clamp_top_k(k_req, n_feats) ==
    LET base == Max(1, IF FloatOk(k_req) THEN k_req.n ELSE TOP_K_DEFAULT)
    IN  IF n_feats >= 10 THEN Min(Max(base, TOP_K_MIN_FLOOR), n_feats)
        ELSE n_feats

\* the decision explain obtains from the policy (lines 155-157)
Decision(ex, a, fts) == apply_policy(ex.policy, predict_proba(ex), _infer_source(a), FeatsDict(fts))
\* the K explain passes to the ranker (lines 160-163)
EffectiveK(ex, a, fts, top_k_override) ==
    _clamp_top_k(IF top_k_override # None THEN top_k_override ELSE IntV(Decision(ex, a, fts).top_k),
                 Len(FeatureNames(ex, fts)))

\* the kernel step attempted whatever the decision says
KernelGate_Always(decision) == TRUE
\* line 176: decision.get("do_shap", True)
KernelGate(decision) == decision.do_shap

ModelScoreOnly == [text |-> "Model score only", features |-> <<>>]
TopImpact(top) == [text |-> "Top impact: ", features |-> [i \in DOMAIN top |-> top[i].feature]]

ExplainRaised(err) == [done |-> TRUE, error |-> err]

\* Explainer.explain
explain(ex, a, fts, top_k_override) ==
    IF InferRaises(a) THEN ExplainRaised("source")
    ELSE
    LET names == FeatureNames(ex, fts)
        x == FeatureVector(ex, fts)
        n_feats == Len(names)
        score == predict_proba(ex)
        decision == Decision(ex, a, fts)
        k == EffectiveK(ex, a, fts, top_k_override)
        treeOk == ex.model /\ ex.tree.kind = "ok"
        kernelTried == ex.model /\ ~treeOk /\ KernelGate(decision)
        kernelOk == kernelTried /\ ex.kernel.kind = "ok"
        fiTried == ex.model /\ ~treeOk /\ ~kernelOk
        phi == IF treeOk THEN ex.tree.phi ELSE ex.kernel.phi
        fi == ex.fi.values
        fiTop == IF fiTried /\ ex.fi.present
                 THEN _append_nonzero_features(
                          ValidOrder(ArgSortDesc(fi), n_feats), names, x, fi, k)
                 ELSE [raised |-> FALSE, out |-> <<>>]
        ranked == IF fiTop.raised \/ ~(treeOk \/ kernelOk) THEN fiTop
                  ELSE _append_nonzero_features(
                          ValidOrder(ArgSortDesc([i \in DOMAIN phi |-> Abs(phi[i])]), n_feats),
                          names, x, phi, k)
        top == ranked.out
        label == IF score >= decision.threshold THEN "malicious" ELSE "benign"
    IN  IF ranked.raised THEN ExplainRaised("index")
        ELSE [done |-> TRUE, error |-> "none",
              predicted_score |-> score,
              predicted_label |-> label,
              top_features |-> top,
              features |-> {<<fts.keys[i], fts.vals[i]>> : i \in {j \in DOMAIN fts.keys : fts.vals[j] # 0}},
              reason |-> IF top # <<>> THEN TopImpact(top) ELSE ModelScoreOnly,
              recommendation |-> IF Truthy(decision.recommendation) THEN decision.recommendation.s
                                 ELSE IF label = "malicious" THEN "Investigate" ELSE "Monitor traffic",
              printed |-> (IF ex.model THEN <<"tree shap">> ELSE <<>>)
                          \o (IF kernelTried THEN <<"kernel shap">> ELSE <<>>)
                          \o (IF fiTried THEN <<"feature importances">> ELSE <<>>),
              kernel_explainer |-> kernelTried /\ ex.kernel.kind \in {"fail", "ok"}]

\* ------------------------------------------------------------------------
\* Explainer.explain under bounded feature vectors and attribution arrays
\* ------------------------------------------------------------------------
MaxFeats == 12      \* features of a vector
MaxZeros == 2       \* zero-valued features of a vector
PhiSlack == 2       \* by how much an attribution array is shorter or longer than the vector

\* the first names of the default vector
NamePool ==
    <<"rule_level", "severity_ord", "bytes_sent", "bytes_recv", "bytes_total", "duration_sec",
      "dst_port", "dst_svc_sensitive", "dst_svc_admin", "pf_win", "pf_lin", "pf_nw", "pf_osks",
      "auth_result_pos", "auth_result_neg", "service_snmp">>
\* n features, the value of feature i is i, 0 for the positions in zeros
FeatsOf(n, zeros) ==
    [keys |-> SubSeq(NamePool, 1, n), vals |-> [i \in 1..n |-> IF i \in zeros THEN 0 ELSE i]]

\* attribution arrays of length len with pairwise distinct magnitudes
PhiPatterns == {"asc", "desc", "mixed"}
PhiOf(pattern, len) ==
    [i \in 1..len |->
        CASE pattern = "asc"   -> IF i % 2 = 0 THEN i ELSE -i
          [] pattern = "desc"  -> len + 1 - i
          [] pattern = "mixed" -> IF i % 2 = 0 THEN 2 * i ELSE -(2 * (len - i) + 1)]

NoTree == [kind |-> "none", phi |-> <<>>]
NoKernel == [kind |-> "nobg", phi |-> <<>>]
NoFi == [present |-> FALSE, values |-> <<>>]
NoSavedNames == [saved |-> FALSE, names |-> <<>>]
\* an Explainer whose model file is missing (lines 16, 28-33: no tree explainer either)
NoModelExplainer ==
    [model |-> FALSE, proba |-> 0, feature_names |-> NoSavedNames,
     tree |-> NoTree, kernel |-> NoKernel, fi |-> NoFi, policy |-> EmptyPolicy]
Call(ex, fts, ov) == [done |-> TRUE, ex |-> ex, feats |-> fts, top_k_override |-> ov]

\* calls that differ in the feature vector and in the attribution array ranked
IsRankCall(ein, a) ==
    \E n \in 0..MaxFeats : \E zs \in [1..MaxZeros -> 0..n] :
    \E pattern \in PhiPatterns : \E d \in {-PhiSlack, 0, PhiSlack} :
    \E method \in {"tree", "fi"} : \E ov \in {None, IntV(1)} :
        LET arr == PhiOf(pattern, Max(0, n + d))
        IN  /\ a = EmptyAlert
            /\ ein = Call([NoModelExplainer EXCEPT
                               !.model = TRUE, !.proba = 80,
                               !.tree = IF method = "tree" THEN [kind |-> "ok", phi |-> arr]
                                        ELSE [kind |-> "fail", phi |-> <<>>],
                               !.fi = IF method = "fi" THEN [present |-> TRUE, values |-> arr] ELSE NoFi],
                          FeatsOf(n, {zs[i] : i \in 1..MaxZeros}), ov)

\* calls that differ in the number of features, the policy's top_k_min and
\* top_k, and the caller's override
IsTopKCall(ein, a) ==
    \E n \in 0..MaxFeats : \E km \in {Absent, IntV(5), IntV(12)} : \E tk \in {Absent, IntV(3), IntV(11)} :
    \E ov \in {None, IntV(1), IntV(11), IntV(20), StrV("all")} :
        /\ a = EmptyAlert
        /\ ein = Call([NoModelExplainer EXCEPT
                           !.model = TRUE, !.proba = 80,
                           !.tree = [kind |-> "ok", phi |-> PhiOf("desc", n)],
                           !.policy = [EmptyPolicy EXCEPT
                                           !.defaults = [NoDefaults EXCEPT !.top_k_min = km, !.top_k = tk]]],
                      FeatsOf(n, {}), ov)

\* an alert whose decoder name is null
NullDecoderAlert == [EmptyAlert EXCEPT !.decoder = "dict", !.decoder_name = None]
ChainFeats == FeatsOf(3, {2})
SavedNames ==
    {NoSavedNames,
     [saved |-> TRUE, names |-> <<"bytes_sent", "rule_level", "hour">>]}

\* calls that differ in what the model and the attribution back ends do
IsChainCall(ein, a) ==
    \E model \in BOOLEAN : \E tk \in {"none", "fail", "ok"} :
    \E kk \in {"nobg", "ctor_fail", "fail", "ok"} : \E fp \in BOOLEAN :
    \E proba \in {10, 50, 90} : \E se \in {Absent, IntV(0)} : \E sm \in {Absent, IntV(50)} :
    \E dt \in {Absent, IntV(70)} : \E sn \in SavedNames :
        /\ a \in {EmptyAlert, FirewallAlert, NullDecoderAlert}
        /\ model \/ (tk = "none" /\ ~fp /\ proba = 50)
        /\ ein = Call([model |-> model, proba |-> proba, feature_names |-> sn,
                       tree |-> [kind |-> tk, phi |-> IF tk = "ok" THEN PhiOf("asc", 3) ELSE <<>>],
                       kernel |-> [kind |-> kk, phi |-> IF kk = "ok" THEN PhiOf("desc", 3) ELSE <<>>],
                       fi |-> [present |-> fp, values |-> IF fp THEN PhiOf("mixed", 3) ELSE <<>>],
                       policy |-> [EmptyPolicy EXCEPT
                                       !.defaults = [NoDefaults EXCEPT
                                           !.shap_enabled = se, !.shap_min_score = sm,
                                           !.decision_threshold = dt]]],
                      ChainFeats, None)

\* the composed flow of app.py: feats = extract_features(alert) under the
\* default vector, then explain(alert, feats), with override rules configured
FlowFeats(a) == [keys |-> extract_features(a, NoFmap).keys, vals |-> extract_features(a, NoFmap).vals]
FlowWhens ==
    {<<Cond("action", StrV("allow"))>>,
     <<Cond("platform_source", StrV("network"))>>,
     <<Cond("service_label", StrV("HTTPS"))>>,
     <<Cond("pf_nw", IntV(1))>>,
     <<Cond("dst_port", IntV(443)), Cond("action", StrV("allow"))>>}
IsFlowCall(ein, a) ==
    \E w \in FlowWhens : \E e \in {Absent, StrV("CRITICAL")} : \E d \in {Absent, StrV("INFO")} :
    \E proba \in {10, 90} : \E tk \in {"fail", "ok"} :
        /\ a \in {EmptyAlert, FirewallAlert}
        /\ ein = Call([NoModelExplainer EXCEPT
                           !.model = TRUE, !.proba = proba,
                           !.tree = [kind |-> tk, phi |-> IF tk = "ok" THEN PhiOf("desc", 20) ELSE <<>>],
                           !.policy = [EmptyPolicy EXCEPT !.overrides = <<Override(w, e, d)>>]],
                      FlowFeats(a), None)

InitExplain ==
    /\ \/ IsRankCall(expIn, alert) \/ IsTopKCall(expIn, alert) \/ IsChainCall(expIn, alert)
       \/ IsFlowCall(expIn, alert)
    /\ expOut = Idle
    /\ canon = Pending /\ IdleFmap
    /\ IdlePolicy /\ IdleDecide /\ IdleSeverity /\ IdleConcurrent /\ IdleSource

Explain ==
    /\ ~expOut.done
    /\ expOut' = explain(expIn.ex, alert, expIn.feats, expIn.top_k_override)
    /\ UNCHANGED <<alert, canon, fmap, fnames, feats, polIn, polOut, decIn, decOut, expIn, sevIn, sevOut, pc, local, explainer, srcOut>>

NextExplain == Explain
SpecExplain == InitExplain /\ [][NextExplain]_vars

\* C7: for an attribution array shorter than, as long as, or longer than the
\* feature vector, explain does not index outside the vector, and the ranked
\* explanation holds no feature whose value is 0, at most K entries, and only
\* features at positions below the vector's length.
C7_RankedExplanation ==
    expOut.done =>
        /\ expOut.error # "index"
        /\ expOut.error = "none" =>
            LET names == FeatureNames(expIn.ex, expIn.feats)
                x == FeatureVector(expIn.ex, expIn.feats)
                top == expOut.top_features
            IN  /\ Len(top) <= EffectiveK(expIn.ex, alert, expIn.feats, expIn.top_k_override)
                /\ \A j \in DOMAIN top :
                      /\ top[j].value # 0
                      /\ \E i \in 1..Len(x) : names[i] = top[j].feature /\ x[i] = top[j].value

\* an attribution array longer than a vector that has a zero-valued feature
\* and more non-zero features than K: the explanation stops at K entries
C7_Witness ==
    /\ expOut.done /\ expOut.error = "none"
    /\ expIn.ex.tree.kind = "ok"
    /\ LET x == FeatureVector(expIn.ex, expIn.feats)
           k == EffectiveK(expIn.ex, alert, expIn.feats, expIn.top_k_override)
       IN  /\ Len(expIn.ex.tree.phi) > Len(x)
           /\ \E i \in DOMAIN x : x[i] = 0
           /\ Cardinality({i \in DOMAIN x : x[i] # 0}) > k
           /\ Len(expOut.top_features) = k

\* C8: the effective K equals the number of features when that number is
\* below the policy's floor top_k_min; otherwise it is at least that floor and
\* at most the number of features, with or without a caller-supplied override.
C8_EffectiveKFloor ==
    (expOut.done /\ expOut.error = "none") =>
        LET n == Len(FeatureNames(expIn.ex, expIn.feats))
            floor == Get(expIn.ex.policy.defaults.top_k_min, IntV(10)).n
            k == EffectiveK(expIn.ex, alert, expIn.feats, expIn.top_k_override)
        IN  IF n < floor THEN k = n ELSE k >= floor /\ k <= n

\* what the attribution steps of a call do
TreeYields == expIn.ex.tree.kind = "ok"
KernelYields == expIn.ex.kernel.kind = "ok"
DoShap == Decision(expIn.ex, alert, expIn.feats).do_shap
Printed(line) == \E i \in DOMAIN expOut.printed : expOut.printed[i] = line

\* C9: with a model loaded, explain attempts tree, kernel, feature-importance
\* in that order; the kernel step is attempted iff the tree step yielded
\* nothing and do_shap is true, the feature-importance step iff no earlier
\* step yielded an attribution; a step's failure does not abort explain; and
\* when no step yields an attribution the explanation is empty with reason
\* 'Model score only'.
C9_FallbackChain ==
    (expOut.done /\ expOut.error # "source" /\ expIn.ex.model) =>
        /\ expOut.error = "none"
        /\ Len(expOut.printed) >= 1 /\ expOut.printed[1] = "tree shap"
        /\ Printed("kernel shap") <=> (~TreeYields /\ DoShap)
        /\ Printed("feature importances") <=> (~TreeYields /\ ~(DoShap /\ KernelYields))
        /\ \A i, j \in DOMAIN expOut.printed :
              (expOut.printed[i] = "kernel shap" /\ expOut.printed[j] = "feature importances") => i < j
        /\ (~TreeYields /\ ~(DoShap /\ KernelYields) /\ ~expIn.ex.fi.present) =>
              (expOut.top_features = <<>> /\ expOut.reason = ModelScoreOnly)

\* the tree step and the kernel step both fail and the model has no feature
\* importances: all three steps were attempted and the explanation is empty
C9_Witness ==
    /\ expOut.done /\ expOut.error = "none"
    /\ expIn.ex.model
    /\ expIn.ex.tree.kind = "fail" /\ expIn.ex.kernel.kind = "fail" /\ ~expIn.ex.fi.present
    /\ expOut.printed = <<"tree shap", "kernel shap", "feature importances">>
    /\ expOut.top_features = <<>>
    /\ expOut.reason = ModelScoreOnly

\* C10: when the scoring model is unavailable, explain returns a result for
\* every alert, and under the default decision threshold that result has
\* label 'benign', reason 'Model score only' and no top features.
C10_WorstCaseIsBenign ==
    (expOut.done /\ ~expIn.ex.model
        /\ expIn.ex.policy.defaults.decision_threshold = Absent) =>
        /\ expOut.error = "none"
        /\ expOut.predicted_label = "benign"
        /\ expOut.reason = ModelScoreOnly
        /\ expOut.top_features = <<>>

\* C11: a rule whose predicate is malformed (unparsable, not a string,
\* comparing incompatible types or an absent field) is treated as
\* non-matching: evaluating the rule list never raises.
C11_MalformedNeverRaises == decOut.done => ~decOut.raised

\* ------------------------------------------------------------------------
\* _severity_to_ord applied to two severities
\* ------------------------------------------------------------------------
MaxLevel == 16      \* greatest numeric rule level

SeverityInputs ==
    {IntV(l) : l \in -1..MaxLevel} \cup {NumStr(l) : l \in 0..MaxLevel}
    \cup {StrV(s) : s \in {"critical", "CRITICAL", "high", "High", "medium", "MEDIUM", "low", "INFO", ""}}
    \cup {None, Obj}

InitSeverity ==
    /\ \E a \in SeverityInputs, b \in SeverityInputs : sevIn = [done |-> TRUE, a |-> a, b |-> b]
    /\ sevOut = Idle
    /\ IdleCanon /\ IdleFmap /\ IdlePolicy /\ IdleDecide /\ IdleExplain /\ IdleConcurrent /\ IdleSource

SeverityToOrd ==
    /\ ~sevOut.done
    /\ sevOut' = [done |-> TRUE, a |-> _severity_to_ord(sevIn.a), b |-> _severity_to_ord(sevIn.b)]
    /\ UNCHANGED <<alert, canon, fmap, fnames, feats, polIn, polOut, decIn, decOut, expIn, expOut, sevIn, pc, local, explainer, srcOut>>

NextSeverity == SeverityToOrd
SpecSeverity == InitSeverity /\ [][NextSeverity]_vars

\* the severity is a number or a string of digits
IsNumericLevel(sev) == sev.t = "int" \/ (sev.t = "str" /\ sev.s = "<digits>")

\* C12: _severity_to_ord returns a value in 0..3, non-decreasing in the
\* numeric level: <= 5 gives 0, 6..8 gives 1, 9..11 gives 2, >= 12 gives 3;
\* the strings critical/high/medium give 3/2/1 and any other string 0.
C12_SeverityOrd ==
    sevOut.done =>
        /\ sevOut.a \in 0..3
        /\ IsNumericLevel(sevIn.a) =>
              /\ sevIn.a.n <= 5 => sevOut.a = 0
              /\ sevIn.a.n \in 6..8 => sevOut.a = 1
              /\ sevIn.a.n \in 9..11 => sevOut.a = 2
              /\ sevIn.a.n >= 12 => sevOut.a = 3
        /\ (IsNumericLevel(sevIn.a) /\ IsNumericLevel(sevIn.b) /\ sevIn.a.n <= sevIn.b.n) =>
              sevOut.a <= sevOut.b
        /\ (sevIn.a.t = "str" /\ ~IsNumericLevel(sevIn.a)) =>
              sevOut.a = (CASE sevIn.a.s \in {"critical", "CRITICAL"} -> 3
                            [] sevIn.a.s \in {"high", "High"} -> 2
                            [] sevIn.a.s \in {"medium", "MEDIUM"} -> 1
                            [] OTHER -> 0)

\* level 11 as a number and level 12 as a digit string: ordinals 2 and 3
C12_Witness ==
    /\ sevOut.done
    /\ sevIn.a = IntV(11) /\ sevIn.b = NumStr(12)
    /\ sevOut.a = 2 /\ sevOut.b = 3

\* the words of a lower-cased name
Words(s) == IF s = "cisco-asa" THEN {"cisco", "asa"} ELSE {s}
\* the words of the decoder name, the rule groups and the agent name
NameWords(a) ==
    Words(DecName(a)) \cup UNION {Words(g) : g \in GroupNames(a)} \cup Words(AgentName(a))
\* the source kind the precedence order gives an alert with these markers
MarkedKind(a) ==
    IF NameWords(a) \cap {"fortigate", "cisco", "unifi", "firewall", "router", "switch"} # {} THEN "network"
    ELSE IF NameWords(a) \cap {"windows", "win"} # {} \/ WinEventTruthy(a) THEN "windows"
    ELSE IF "linux" \in NameWords(a) THEN "linux"
    ELSE IF NameWords(a) \cap {"openstack", "nova", "keystone", "neutron"} # {} THEN "openstack"
    ELSE IF HasStructuralHint(a) THEN "network"
    ELSE "generic"

\* C13: source detection returns the kind of the highest-precedence marker
\* present (network keyword > Windows > Linux > cloud API > structural hint >
\* generic); an alert with none of the markers is classified generic.
C13_DetectionPrecedence ==
    (canon.done /\ ~canon.raised) => canon.rec["platform_source"] = StrV(MarkedKind(alert))

\* the ranked explanation of the vector x under an attribution array
Ranked(names, x, phi, k) ==
    _append_nonzero_features(
        ValidOrder(ArgSortDesc([i \in DOMAIN phi |-> Abs(phi[i])]), Len(x)), names, x, phi, k)

\* C14: for the raw alert {} source detection yields generic, the canonical
\* record has platform_source 'generic' with every platform flag and every
\* numeric field 0, every entry of the default-schema feature vector is 0,
\* and the ranked explanation is empty whatever attribution array is given.
C14_EmptyAlert ==
    (feats.done /\ alert = EmptyAlert /\ fmap = NoFmap) =>
        /\ ~canon.raised /\ ~feats.raised
        /\ _detect_source(alert) = "generic"
        /\ canon.rec["platform_source"] = StrV("generic")
        /\ \A k \in {"pf_win", "pf_lin", "pf_nw", "pf_osks"} : canon.rec[k] = IntV(0)
        /\ \A k \in DOMAIN canon.rec : canon.rec[k].t = "int" => canon.rec[k].n = 0
        /\ \A i \in DOMAIN feats.vals : feats.vals[i] = 0
        /\ \A pattern \in PhiPatterns, d \in {-PhiSlack, 0, PhiSlack}, k \in {1, TOP_K_DEFAULT, Len(feats.vals)} :
              LET r == Ranked(feats.keys, feats.vals, PhiOf(pattern, Len(feats.vals) + d), k)
              IN  ~r.raised /\ r.out = <<>>

\* the default-schema vector of {} has been extracted: 20 entries, all 0
C14_Witness ==
    /\ feats.done /\ ~feats.raised
    /\ alert = EmptyAlert /\ fmap = NoFmap
    /\ Len(feats.vals) = 20
    /\ \A i \in DOMAIN feats.vals : feats.vals[i] = 0

\* ------------------------------------------------------------------------
\* Repeated invocations of apply_policy and Policy.decide with the same
\* arguments.  Each call of decide reads the clock and the model file's mtime
\* (lines 108-111 of model_api/policy.py): the staleness it computes is
\* whatever the environment gives at that moment.  polOut / decOut keep the
\* number of calls made, the first result and the latest one.
\* ------------------------------------------------------------------------
MaxCalls == 3       \* invocations with the same arguments

StalenessValues == {None, IntV(0), IntV(1)}
NoCalls == [done |-> FALSE, calls |-> 0]
Called(prev, result) ==
    [done |-> TRUE, calls |-> prev.calls + 1,
     first |-> IF prev.calls = 0 THEN result ELSE prev.first,
     last |-> result]

IsRepeatPolicyCall(pin) ==
    \E sc \in {29, 85} : \E c \in PolCanons :
    \E bands \in {<<>>, <<Band(IntV(50), StrV("HIGH"), StrV("Escalate"), Absent)>>} :
    \E ovs \in {<<>>, <<Override(<<Cond("action", StrV("allow"))>>, StrV("CRITICAL"), Absent)>>} :
        pin = [done |-> TRUE, score |-> sc, source |-> "network", c |-> c,
               policy |-> [WithSource(EmptyPolicy, "network", [NoSrcPol EXCEPT !.bands = bands])
                           EXCEPT !.overrides = ovs]]

IsRepeatDecideCall(din) ==
    \E sc \in {55, 80} : \E mask \in {<<>>, <<TRUE, FALSE>>} :
    \E rules \in {<<>>, <<Rule(StrV("rule.level >= 10"), LevelReason, IntV(20),
                               <<"Open incident">>, StrV("high"))>>} :
        din = [done |-> TRUE, cfg |-> Config(NoThresholds, rules), score |-> sc, alert |-> DenyAlert,
               mask |-> mask, names |-> <<"rule_level", "dst_port">>]

InitRepeat ==
    /\ IsRepeatPolicyCall(polIn)
    /\ IsRepeatDecideCall(decIn)
    /\ polOut = NoCalls
    /\ decOut = NoCalls
    /\ IdleCanon /\ IdleFmap /\ IdleExplain /\ IdleSeverity /\ IdleConcurrent /\ IdleSource

\* apply_policy called once more; it assigns to nothing in the policy
ApplyPolicyAgain ==
    /\ polOut.calls < MaxCalls
    /\ polOut' = Called(polOut, apply_policy(polIn.policy, polIn.score, polIn.source, polIn.c))
    /\ UNCHANGED <<alert, canon, fmap, fnames, feats, polIn, decIn, decOut, expIn, expOut, sevIn, sevOut, pc, local, explainer, srcOut>>

\* Policy.decide called once more; it assigns to no field of the Policy
DecideAgain ==
    /\ decOut.calls < MaxCalls
    /\ \E staleness \in StalenessValues :
          decOut' = Called(decOut, decide(decIn.cfg, decIn.score, decIn.alert,
                                           decIn.mask, decIn.names, staleness))
    /\ UNCHANGED <<alert, canon, fmap, fnames, feats, polIn, polOut, decIn, expIn, expOut, sevIn, sevOut, pc, local, explainer, srcOut>>

NextRepeat == ApplyPolicyAgain \/ DecideAgain
SpecRepeat == InitRepeat /\ [][NextRepeat]_vars

\* C15: the policy decision is a function of (score, alert record,
\* configuration) only: an invocation with the same arguments returns the
\* result the first one returned, whenever it is made.
C15_EqualInputsEqualResults ==
    /\ polOut.done => polOut.last = polOut.first
    /\ decOut.done => decOut.last = decOut.first

\* tools/validate_policy.py, lines 13-14: the thresholds the document carries,
\* in the order info, low, medium, high, critical, are non-decreasing
ThresholdsOrdered(th) ==
    LET present == SelectSeq(Tags, LAMBDA tag : ThHas(th, tag))
    IN  \A i, j \in DOMAIN present : i <= j => th[present[i]].n <= th[present[j]].n

\* C16: a policy document whose thresholds are not non-decreasing is rejected
\* when the policy is loaded: the engine never makes a decision with it.
C16_InvalidPolicyRejected ==
    (decOut.done /\ ~decOut.raised) => ThresholdsOrdered(decIn.cfg.th)

\* the usual meaning of a numeric condition for a numeric record value
UsualCondHolds(v, cv) ==
    IF IsCmp(v)
    THEN CASE v.s = ">=" -> cv.n >= v.n
           [] v.s = "<=" -> cv.n <= v.n
           [] v.s = ">"  -> cv.n > v.n
           [] v.s = "<"  -> cv.n < v.n
    ELSE cv = v

\* C17: in match_overrides a numeric condition has its usual meaning:
\* '>=N' matches iff value >= N, '<=N' iff value <= N, '>N' iff value > N,
\* '<N' iff value < N; '>=N' and '<=N' match a value equal to N.
C17_NumericConditions ==
    polOut.done =>
        \A i \in 1..Len(polIn.policy.overrides) :
            LET when == polIn.policy.overrides[i].when
            IN  (\A j \in 1..Len(when) : CGet(polIn.c, when[j].key, None).t = "int")
                => (match_overrides(when, polIn.c)
                    <=> \A j \in 1..Len(when) :
                            UsualCondHolds(when[j].v, CGet(polIn.c, when[j].key, None)))

\* the reasons the matching rules contribute, in rule order (lines 86-88)
RuleReasons(cfg, a) == RuleLoop(cfg.rules, a, LoopState("", 0, <<>>, <<>>)).reasons

\* C18: in the final reason list of Policy.decide the matching rules' reasons
\* come first, in rule order; the synthesized default reason is present only
\* when no rule contributed a reason, and is then the only entry; the list is
\* truncated to 6 entries.
C18_RuleReasonsFirst ==
    (decOut.done /\ ~decOut.raised) =>
        LET rr == RuleReasons(decIn.cfg, decIn.alert)
        IN  IF rr = <<>>
            THEN Len(decOut.reasons) = 1 /\ decOut.reasons[1].kind # "rule"
            ELSE decOut.reasons = Take(rr, 6)

\* the bump a rule carries (a rule without one, or with bump 0, adds nothing)
BumpOf(r) == IF r.bump.t = "int" THEN r.bump.n ELSE 0
\* the bumps of the rules i..Len(rules) that match the alert, summed
RECURSIVE SumBumps(_, _, _)
SumBumps(rules, a, i) ==
    IF i > Len(rules) THEN 0
    ELSE (IF RuleHit(rules[i], a) THEN BumpOf(rules[i]) ELSE 0) + SumBumps(rules, a, i + 1)

\* C19: the score returned by Policy.decide is the input score plus the bumps
\* of all matching rules, each counted once and non-matching rules counting
\* nothing, clamped to [0,1] (0..100 hundredths); it is always within [0,1].
C19_ScoreIsClampedSum ==
    (decOut.done /\ ~decOut.raised) =>
        LET total == decIn.score + SumBumps(decIn.cfg.rules, decIn.alert, 1)
        IN  /\ decOut.score = (IF total < 0 THEN 0 ELSE IF total > 100 THEN 100 ELSE total)
            /\ decOut.score \in 0..100
\* two rules with a bump, one matching and one not: only the first is added
C19_Witness ==
    /\ decOut.done /\ ~decOut.raised
    /\ Len(decIn.cfg.rules) = 2
    /\ RuleHit(decIn.cfg.rules[1], decIn.alert) /\ BumpOf(decIn.cfg.rules[1]) = 20
    /\ ~RuleHit(decIn.cfg.rules[2], decIn.alert) /\ BumpOf(decIn.cfg.rules[2]) = 20
    /\ decIn.score = 55 /\ decOut.score = 75
\* two matching rules whose bumps take the sum above 1: the score is clamped
C19_WitnessClamped ==
    /\ decOut.done /\ ~decOut.raised
    /\ Len(decIn.cfg.rules) = 2
    /\ \A i \in 1..2 : RuleHit(decIn.cfg.rules[i], decIn.alert) /\ BumpOf(decIn.cfg.rules[i]) = 20
    /\ decIn.score = 70 /\ decOut.score = 100

\* C20: resolving a feature value never raises: for every feature map whose
\* shape is accepted and every declared default it can carry (null and
\* non-numeric strings included), _apply_feature_map returns a vector.
C20_ResolveNeverRaises ==
    (feats.done /\ ~CanonRaises(alert) /\ FmapLoaded(fmap) /\ ~_norm_features_spec(fmap).raised)
        => ~feats.raised

\* a flat mapping {name: path | {path, default}}: every value is a path
\* string or a spec dict with the optional entries path and default
IsFlatMapping(fm) ==
    /\ fm.features = "dict"
    /\ \A i \in 1..Len(fm.items) : fm.items[i].val.k \in {"str", "dict"}
\* a list whose entries are names or dicts that declare a name
IsNamedList(fm) ==
    /\ fm.features = "list"
    /\ \A i \in 1..Len(fm.items) :
          \/ fm.items[i].k = "str"
          \/ fm.items[i].k = "dict" /\ fm.items[i].name.t = "str" /\ fm.items[i].name.s # ""
\* the names the entries of such a map declare, in declaration order
DeclaredNames(fm) ==
    IF fm.features = "dict" THEN [i \in 1..Len(fm.items) |-> fm.items[i].key]
    ELSE [i \in 1..Len(fm.items) |->
            IF fm.items[i].k = "str" THEN fm.items[i].s ELSE fm.items[i].name.s]

\* C21: an entry that omits optional sub-fields is neither rejected, dropped
\* nor renamed: every entry of a list or flat mapping yields exactly one
\* triple named by its declared name/key, in declaration order, with path
\* defaulting to the name and default defaulting to 0.
C21_EveryEntryOneTriple ==
    (fnames.done /\ (IsFlatMapping(fmap) \/ IsNamedList(fmap))) =>
        LET norm == _norm_features_spec(fmap)
        IN  /\ ~norm.raised
            /\ fnames = NamesOk(DeclaredNames(fmap))
            /\ Len(norm.list) = Len(fmap.items)
            /\ \A i \in 1..Len(norm.list) :
                  LET item == IF fmap.features = "dict" THEN fmap.items[i].val ELSE fmap.items[i]
                  IN  /\ (item.k = "dict" /\ item.path = Absent) => norm.list[i].path = norm.list[i].name
                      /\ (item.k = "dict" /\ item.default = Absent) => norm.list[i].default = IntV(0)

\* C22: when an alert carries both a numeric rule level and a string
\* severity, the canonical severity_ord is the one derived from the numeric
\* rule level, not from the string.
C22_RuleLevelBeforeSeverity ==
    (/\ canon.done /\ ~canon.raised
     /\ canon.rec["platform_source"] \in {StrV("network"), StrV("generic")}
     /\ alert.rule = "dict" /\ alert.rule_level.t = "int"
     /\ alert.data = "dict" /\ alert.data_severity.t = "str" /\ alert.data_severity.s # "<digits>")
        => canon.rec["severity_ord"] = IntV(LevelOrd(alert.rule_level.n))

\* C23: for every detected source kind, the canonical severity_ord of an
\* alert with numeric rule level L and no string severity equals the
\* rule-level mapping of L (>= 12 gives 3, >= 9 gives 2, >= 6 gives 1, else 0).
C23_SeverityFromRuleLevel ==
    (/\ canon.done /\ ~canon.raised
     /\ alert.rule = "dict" /\ alert.rule_level.t = "int"
     /\ Entry(alert.data, alert.data_severity) = Absent)
        => canon.rec["severity_ord"] = IntV(LevelOrd(alert.rule_level.n))

\* C24: in the composed explain flow the override predicates are evaluated
\* against the alert's canonical record: the decision explain takes is the
\* one apply_policy gives on that record, so a rule conditioned on a canonical
\* field matches whenever the record satisfies it, whether or not the field
\* is part of the numeric feature vector.
C24_OverridesReadCanonical ==
    (/\ expOut.done /\ expOut.error = "none"
     /\ expIn.feats = FlowFeats(alert) /\ expIn.ex.policy.overrides # <<>>)
        => Decision(expIn.ex, alert, expIn.feats).tag
             = apply_policy(expIn.ex.policy, predict_proba(expIn.ex), _infer_source(alert),
                            Canonical(alert).rec).tag

\* ------------------------------------------------------------------------
\* Concurrent explain calls on one Explainer (app.py serves explain from a
\* worker pool; the Explainer is a module-level object).  A call is a thread
\* that steps through Explainer.explain; a thread switch can fall between any
\* two steps.  kernel_explainer is 0 for None, else the thread that built it.
\* ------------------------------------------------------------------------
MaxThreads == 2     \* concurrent explain calls
Threads == 1..MaxThreads

InitConcurrent ==
    /\ \E model \in BOOLEAN, tree \in {"ok", "fail"}, bg \in BOOLEAN :
          explainer = [done |-> TRUE, model |-> model, tree_explainer |-> tree, shap_bg |-> bg,
                       kernel_explainer |-> 0]
    /\ pc = [t \in Threads |-> "score"]
    /\ \E xs \in [Threads -> {1, 2}], ds \in [Threads -> BOOLEAN] :
          local = [t \in Threads |-> [x |-> xs[t], do_shap |-> ds[t], phi |-> "none", used |-> 0]]
    /\ IdleCanon /\ IdleFmap /\ IdlePolicy /\ IdleDecide /\ IdleExplain /\ IdleSeverity /\ IdleSource

\* the variables of the single-call specifications
callVars == <<alert, canon, fmap, fnames, feats, polIn, polOut, decIn, decOut, expIn, expOut, sevIn, sevOut, srcOut>>

\* lines 151-166: score, decision and K are computed from the arguments
Score(t) ==
    /\ pc[t] = "score"
    /\ pc' = [pc EXCEPT ![t] = IF explainer.model THEN "tree" ELSE "answer"]
    /\ UNCHANGED <<local, explainer, callVars>>
\* lines 168-173: Tree SHAP
ShapTree(t) ==
    /\ pc[t] = "tree"
    /\ IF explainer.tree_explainer = "ok"
       THEN /\ local' = [local EXCEPT ![t].phi = "tree"]
            /\ pc' = [pc EXCEPT ![t] = "answer"]
       ELSE /\ local' = local
            /\ pc' = [pc EXCEPT ![t] = IF local[t].do_shap THEN "kernel" ELSE "importances"]
    /\ UNCHANGED <<explainer, callVars>>
\* _shap_kernel lines 94-96: the two tests
KernelCheck(t) ==
    /\ pc[t] = "kernel"
    /\ pc' = [pc EXCEPT ![t] = IF ~explainer.shap_bg THEN "importances"
                               ELSE IF explainer.kernel_explainer = 0 THEN "construct"
                               ELSE "shap_values"]
    /\ UNCHANGED <<local, explainer, callVars>>
\* _shap_kernel lines 97-100: self.kernel_explainer = shap.KernelExplainer(...)
KernelConstruct(t) ==
    /\ pc[t] = "construct"
    /\ explainer' = [explainer EXCEPT !.kernel_explainer = t]
    /\ pc' = [pc EXCEPT ![t] = "shap_values"]
    /\ UNCHANGED <<local, callVars>>
\* _shap_kernel lines 101-106: self.kernel_explainer.shap_values(x)
KernelValues(t) ==
    /\ pc[t] = "shap_values"
    /\ local' = [local EXCEPT ![t].phi = "kernel", ![t].used = explainer.kernel_explainer]
    /\ pc' = [pc EXCEPT ![t] = "answer"]
    /\ UNCHANGED <<explainer, callVars>>
\* lines 183-192: feature importances
Importances(t) ==
    /\ pc[t] = "importances"
    /\ local' = [local EXCEPT ![t].phi = "fi"]
    /\ pc' = [pc EXCEPT ![t] = "answer"]
    /\ UNCHANGED <<explainer, callVars>>
\* lines 195-220: the ranking and the returned dict
Answer(t) ==
    /\ pc[t] = "answer"
    /\ pc' = [pc EXCEPT ![t] = "done"]
    /\ UNCHANGED <<local, explainer, callVars>>

NextConcurrent ==
    \E t \in Threads :
        \/ Score(t) \/ ShapTree(t) \/ KernelCheck(t) \/ KernelConstruct(t)
        \/ KernelValues(t) \/ Importances(t) \/ Answer(t)
SpecConcurrent == InitConcurrent /\ [][NextConcurrent]_vars

\* C25: in every interleaving of concurrent explain calls on one Explainer no
\* call writes state shared with another call: every field of the Explainer
\* is left as it was constructed by every step of every call.
C25_NoSharedWrites == [][explainer' = explainer]_vars

\* C26: every destination port falls in exactly one port-range bucket:
\* port_bucket_low is 1 iff dst_port <= 1024, port_bucket_mid is 1 iff
\* 1025 <= dst_port <= 49151, port_bucket_high is 1 iff dst_port >= 49152,
\* and no two bucket flags are 1 together.
C26_OnePortBucket ==
    (canon.done /\ ~canon.raised) =>
        LET port == canon.rec["dst_port"].n
            low  == canon.rec["port_bucket_low"].n
            mid  == canon.rec["port_bucket_mid"].n
            high == canon.rec["port_bucket_high"].n
        IN  /\ low = 1 <=> port <= 1024
            /\ mid = 1 <=> (1025 <= port /\ port <= 49151)
            /\ high = 1 <=> port >= 49152
            /\ low + mid + high = 1

\* C27: in every canonical record at most one of the platform flags pf_win,
\* pf_lin, pf_nw, pf_osks is 1; exactly one is 1 for a non-generic source and
\* none for generic; and the flag agrees with platform_source (pf_nw = 1 iff
\* 'network', pf_win = 1 iff 'windows', pf_lin = 1 iff 'linux', pf_osks = 1
\* iff 'openstack').
C27_PlatformFlags ==
    (canon.done /\ ~canon.raised) =>
        LET r == canon.rec
            flags == r["pf_win"].n + r["pf_lin"].n + r["pf_nw"].n + r["pf_osks"].n
        IN  /\ \A k \in {"pf_win", "pf_lin", "pf_nw", "pf_osks"} : r[k] \in {IntV(0), IntV(1)}
            /\ flags <= 1
            /\ flags = (IF r["platform_source"] = StrV("generic") THEN 0 ELSE 1)
            /\ r["pf_nw"].n = 1 <=> r["platform_source"] = StrV("network")
            /\ r["pf_win"].n = 1 <=> r["platform_source"] = StrV("windows")
            /\ r["pf_lin"].n = 1 <=> r["platform_source"] = StrV("linux")
            /\ r["pf_osks"].n = 1 <=> r["platform_source"] = StrV("openstack")
C27_Witness ==
    /\ canon.done /\ ~canon.raised
    /\ _detect_source(alert) = "fortigate"
    /\ canon.rec["platform_source"] = StrV("network")
    /\ canon.rec["pf_nw"] = IntV(1) /\ canon.rec["pf_win"] = IntV(0)
    /\ canon.rec["pf_lin"] = IntV(0) /\ canon.rec["pf_osks"] = IntV(0)

\* C28: in every augmented canonical record at most one of the direction
\* flags dir_internal, dir_ingress, dir_egress is 1, and dir_ingress or
\* dir_egress being 1 implies action_allowed = 1 and pf_nw = 1.
C28_OneDirection ==
    (canon.done /\ ~canon.raised) =>
        LET r == canon.rec
        IN  /\ r["dir_internal"].n + r["dir_ingress"].n + r["dir_egress"].n <= 1
            /\ (r["dir_ingress"].n = 1 \/ r["dir_egress"].n = 1)
                   => (r["action_allowed"].n = 1 /\ r["pf_nw"].n = 1)

\* ------------------------------------------------------------------------
\* _detect_source and _infer_source on one raw alert
\* ------------------------------------------------------------------------
InitSource ==
    /\ IsRawAlert(alert)
    /\ canon = Pending
    /\ srcOut = Idle
    /\ IdleFmap /\ IdlePolicy /\ IdleDecide /\ IdleExplain /\ IdleSeverity /\ IdleConcurrent

InferAndDetect ==
    /\ ~srcOut.done
    /\ srcOut' = [done |-> TRUE,
                  raised |-> DetectRaises(alert) \/ InferRaises(alert),
                  detected |-> _detect_source(alert),
                  inferred |-> _infer_source(alert)]
    /\ UNCHANGED <<alert, canon, fmap, fnames, feats, polIn, polOut, decIn, decOut, expIn, expOut,
                   sevIn, sevOut, pc, local, explainer>>

NextSource == InferAndDetect
SpecSource == InitSource /\ [][NextSource]_vars

\* C29: the policy source chosen by Explainer._infer_source agrees with the
\* feature extractor's _detect_source for the same alert: 'network' exactly
\* when _detect_source returns fortigate/cisco/unifi, 'endpoint' exactly when
\* it returns windows/linux, 'server' exactly when it returns
\* openstack/generic.
C29_InferAgreesWithDetect ==
    (srcOut.done /\ ~srcOut.raised) =>
        /\ srcOut.inferred = "network" <=> srcOut.detected \in {"fortigate", "cisco", "unifi"}
        /\ srcOut.inferred = "endpoint" <=> srcOut.detected \in {"windows", "linux"}
        /\ srcOut.inferred = "server" <=> srcOut.detected \in {"openstack", "generic"}
\* an alert with no name that marks it, taken for a network alert by its data.devid
C29_Witness ==
    /\ srcOut.done /\ ~srcOut.raised
    /\ ~IsNetworkNamed(alert) /\ HasStructuralHint(alert)
    /\ srcOut.detected = "fortigate" /\ srcOut.inferred = "network"

\* C30: whenever Policy.decide emits the synthesized reason
\* 'Score s >= tag threshold t', the statement is true of the returned
\* decision: the returned (boosted) score is at least the configured
\* threshold of the returned tag, for every score, rule set and bump.
C30_ScoreReasonIsTrue ==
    (decOut.done /\ ~decOut.raised) =>
        \A i \in 1..Len(decOut.reasons) :
            decOut.reasons[i].kind = "score" =>
                /\ decOut.reasons[i].tag = decOut.tag
                /\ decOut.reasons[i].score = decOut.score
                /\ decOut.reasons[i].threshold = ThGet(decIn.cfg.th, decOut.tag, 0)
                /\ decOut.score >= decOut.reasons[i].threshold

====
